---- MODULE Spec2Model ----
(***************************************************************************)
(* A model of klippy/extras/bed_mesh.py: the height map (ZMesh), the move  *)
(* splitter (MoveSplitter), the transform that owns the active map         *)
(* (BedMesh), the calibration front end (BedMeshCalibrate), the probe      *)
(* point planner (ProbeManager) and the profile store (ProfileManager).    *)
(*                                                                         *)
(* Python floats are modelled as exact rationals <<n, d>> (d > 0, lowest   *)
(* terms): the model sees what the arithmetic computes, not its rounding.  *)
(* Python lists are functions over 0 .. len-1, so that indices read as in  *)
(* the source.                                                             *)
(***************************************************************************)
EXTENDS Integers, Sequences, FiniteSets, TLC

\* F applied to the value of e: e is evaluated once and F sees its value
With(e, F(_)) == CHOOSE r \in {F(x) : x \in {e}} : TRUE

(***************************************************************************)
(* Rational arithmetic                                                     *)
(***************************************************************************)
Abs(n) == IF n < 0 THEN -n ELSE n

RECURSIVE GCD(_, _)
GCD(a, b) == IF b = 0 THEN a ELSE GCD(b, a % b)

\* the rational n/d in lowest terms with a positive denominator
Rat(n, d) ==
    LET s == IF d < 0 THEN -1 ELSE 1
        g == GCD(Abs(n), Abs(d))
    IN  <<(s * n) \div g, (s * d) \div g>>

R(n) == <<n, 1>>
Zero == <<0, 1>>
One == <<1, 1>>

\* sums and products reduce before they multiply, to keep the integers small
RAdd(a, b) ==
    IF a[2] = b[2]
    THEN (IF a[2] = 1 THEN <<a[1] + b[1], 1>> ELSE Rat(a[1] + b[1], a[2]))
    ELSE LET g == GCD(a[2], b[2])
         IN  Rat(a[1] * (b[2] \div g) + b[1] * (a[2] \div g), (a[2] \div g) * b[2])
RSub(a, b) == RAdd(a, <<-b[1], b[2]>>)
RMul(a, b) ==
    IF a[1] = 0 \/ b[1] = 0 THEN <<0, 1>>
    ELSE IF a[2] = 1 /\ b[2] = 1 THEN <<a[1] * b[1], 1>>
    ELSE LET g1 == GCD(Abs(a[1]), b[2])
             g2 == GCD(Abs(b[1]), a[2])
         IN  <<(a[1] \div g1) * (b[1] \div g2), (a[2] \div g2) * (b[2] \div g1)>>
RDiv(a, b) == RMul(a, IF b[1] < 0 THEN <<-b[2], -b[1]>> ELSE <<b[2], b[1]>>)
RNeg(a) == <<-a[1], a[2]>>
\* comparisons look at the integer parts first, to keep the integers small
RLt(a, b) ==
    IF a[2] = b[2] THEN a[1] < b[1]
    ELSE IF (a[1] \div a[2]) # (b[1] \div b[2]) THEN (a[1] \div a[2]) < (b[1] \div b[2])
    ELSE (a[1] % a[2]) * b[2] < (b[1] % b[2]) * a[2]
RLe(a, b) == a = b \/ RLt(a, b)
RAbs(a) == <<Abs(a[1]), a[2]>>
RMin(a, b) == IF RLe(a, b) THEN a ELSE b
RMax(a, b) == IF RLe(a, b) THEN b ELSE a
\* math.floor
RFloor(a) == a[1] \div a[2]

\* sum of f[i] for i in lo .. hi
RECURSIVE RSum(_, _, _)
RSum(f, lo, hi) ==
    IF hi < lo THEN Zero
    ELSE IF hi = lo THEN RAdd(Zero, f[lo])
    ELSE RAdd(RSum(f, lo, (lo + hi) \div 2), RSum(f, (lo + hi) \div 2 + 1, hi))

\* minimum / maximum of f[i] for i in lo .. hi (lo <= hi)
RECURSIVE RMinOf(_, _, _)
RMinOf(f, lo, hi) ==
    IF hi = lo THEN f[lo]
    ELSE RMin(RMinOf(f, lo, (lo + hi) \div 2), RMinOf(f, (lo + hi) \div 2 + 1, hi))
RECURSIVE RMaxOf(_, _, _)
RMaxOf(f, lo, hi) ==
    IF hi = lo THEN f[lo]
    ELSE RMax(RMaxOf(f, lo, (lo + hi) \div 2), RMaxOf(f, (lo + hi) \div 2 + 1, hi))

\* round(a, 2): to the nearest hundredth, ties to the even hundredth
round2(a) ==
    LET h == RMul(a, R(100))
        fl == RFloor(h)
        fr == RSub(h, R(fl))
        half == <<1, 2>>
        up == IF RLt(half, fr) THEN 1
              ELSE IF fr = half THEN (IF fl % 2 = 0 THEN 0 ELSE 1)
              ELSE 0
    IN  Rat(fl + up, 100)

\* <<floor(r * 10^k / d), the remainder>> for 0 <= r < d, by long division
RECURSIVE decimal_places(_, _, _)
decimal_places(r, d, k) ==
    IF k = 0 THEN <<0, r>>
    ELSE LET p == decimal_places(r, d, k - 1)
         IN  <<p[1] * 10 + (p[2] * 10) \div d, (p[2] * 10) % d>>

\* round(a, 6): to the nearest millionth, ties to the even millionth
round6(a) ==
    IF 1000000 % a[2] = 0 THEN a
    ELSE LET w == a[1] \div a[2]
             p == decimal_places(a[1] % a[2], a[2], 6)
             up == IF 2 * p[2] > a[2] THEN 1
                   ELSE IF 2 * p[2] = a[2] THEN (IF p[1] % 2 = 0 THEN 0 ELSE 1)
                   ELSE 0
         IN  RAdd(R(w), Rat(p[1] + up, 1000000))

(***************************************************************************)
(* Module-level helpers of bed_mesh.py                                     *)
(***************************************************************************)
\* constrain(val, min_val, max_val) on integers and on floats
constrain_int(val, min_val, max_val) ==
    LET lo == IF val < min_val THEN min_val ELSE val
    IN  IF lo > max_val THEN max_val ELSE lo

constrain(val, min_val, max_val) == RMin(max_val, RMax(min_val, val))

\* lerp(t, v0, v1) = (1.0 - t) * v0 + t * v1
lerp(t, v0, v1) == RAdd(RMul(RSub(One, t), v0), RMul(t, v1))

\* x <= 10^-e for a rational x >= 0, without forming 10^e
RECURSIVE le_pow10(_, _)
le_pow10(x, e) == IF e = 0 THEN x[1] <= x[2] ELSE le_pow10(<<x[1], x[2] \div 10>>, e - 1)

\* |a - b| <= rel_tol * max(|a|, |b|) with rel_tol = 1e-09
rel_close(a, b) ==
    LET m == RMax(RAbs(a), RAbs(b))
    IN  IF a = b THEN TRUE ELSE le_pow10(RDiv(RAbs(RSub(a, b)), m), 9)

\* isclose(a, b, abs_tol=abs_tol): |a-b| <= max(rel_tol*max(|a|,|b|), abs_tol)
isclose(a, b, abs_tol) == rel_close(a, b) \/ RLe(RAbs(RSub(a, b)), abs_tol)

\* isclose(a, b, abs_tol=10^-e)
isclose_e(a, b, e) == rel_close(a, b) \/ le_pow10(RAbs(RSub(a, b)), e)

\* within(coord, min_c, max_c, tol): coord is a pair, inclusive
within(coord, min_c, max_c, tol) ==
    /\ RLe(coord[1], RAdd(max_c[1], tol)) /\ RLe(RSub(min_c[1], tol), coord[1])
    /\ RLe(coord[2], RAdd(max_c[2], tol)) /\ RLe(RSub(min_c[2], tol), coord[2])

(***************************************************************************)
(* class ZMesh                                                             *)
(*                                                                         *)
(* A ZMesh object is a record                                              *)
(*   [profile_name, mesh_params, probed_matrix, mesh_matrix, same_matrix,  *)
(*    mesh_offsets]                                                        *)
(* where same_matrix says that mesh_matrix and probed_matrix are one list  *)
(* object (what _sample_direct leaves behind), and NoMesh is Python's None.*)
(***************************************************************************)
NoMesh == [none |-> TRUE]

\* attributes computed by ZMesh.__init__ from the parameters
mesh_x_count(p) == (p.x_count - 1) * p.mesh_x_pps + p.x_count
mesh_y_count(p) == (p.y_count - 1) * p.mesh_y_pps + p.y_count
x_mult(p) == p.mesh_x_pps + 1
y_mult(p) == p.mesh_y_pps + 1
mesh_x_dist(p) == RDiv(RSub(p.max_x, p.min_x), R(mesh_x_count(p) - 1))
mesh_y_dist(p) == RDiv(RSub(p.max_y, p.min_y), R(mesh_y_count(p) - 1))

get_x_coordinate(p, index) == RAdd(p.min_x, RMul(mesh_x_dist(p), R(index)))
get_y_coordinate(p, index) == RAdd(p.min_y, RMul(mesh_y_dist(p), R(index)))

\* the list comprehension that seeds mesh_matrix in _sample_lagrange and
\* _sample_bicubic, reading the sample grid transposed
seed_matrix_transposed(p, z_matrix) ==
    [j \in 0 .. mesh_y_count(p) - 1 |->
        [i \in 0 .. mesh_x_count(p) - 1 |->
            IF (i % x_mult(p)) # 0 \/ (j % y_mult(p)) # 0
            THEN Zero
            ELSE z_matrix[(i \div x_mult(p)) % p.y_count][(j \div y_mult(p)) % p.x_count]]]

seed_matrix(p, z_matrix) ==
    [j \in 0 .. mesh_y_count(p) - 1 |->
        [i \in 0 .. mesh_x_count(p) - 1 |->
            IF (i % x_mult(p)) # 0 \/ (j % y_mult(p)) # 0
            THEN Zero
            ELSE z_matrix[j \div y_mult(p)][i \div x_mult(p)]]]

\* _get_lagrange_coords
lagrange_xpts(p) == [i \in 0 .. p.x_count - 1 |-> get_x_coordinate(p, i * x_mult(p))]
lagrange_ypts(p) == [j \in 0 .. p.y_count - 1 |-> get_y_coordinate(p, j * y_mult(p))]

RECURSIVE lagrange_n(_, _, _, _)
\* n *= c - lpts[j] for j in 0 .. k, j # i
lagrange_n(lpts, c, i, k) ==
    IF k < 0 THEN One
    ELSE IF k = i THEN lagrange_n(lpts, c, i, k - 1)
    ELSE RMul(lagrange_n(lpts, c, i, k - 1), RSub(c, lpts[k]))

RECURSIVE lagrange_d(_, _, _)
\* d *= lpts[i] - lpts[j] for j in 0 .. k, j # i
lagrange_d(lpts, i, k) ==
    IF k < 0 THEN One
    ELSE IF k = i THEN lagrange_d(lpts, i, k - 1)
    ELSE RMul(lagrange_d(lpts, i, k - 1), RSub(lpts[i], lpts[k]))

\* _calc_lagrange(lpts, c, vec, axis) reading the matrix m
calc_lagrange(p, m, lpts, pt_cnt, c, vec, axis) ==
    LET term(i) ==
            LET z == IF axis = 0 THEN m[vec][i * x_mult(p)] ELSE m[i * y_mult(p)][vec]
            IN  RDiv(RMul(z, lagrange_n(lpts, c, i, pt_cnt - 1)),
                     lagrange_d(lpts, i, pt_cnt - 1))
        terms == [i \in 0 .. pt_cnt - 1 |-> term(i)]
    IN  RSum(terms, 0, pt_cnt - 1)

\* _sample_lagrange: X rows that hold samples first, then every Y column
sample_lagrange(p, z_matrix) ==
    LET m0 == seed_matrix(p, z_matrix)
        mx == [i \in 0 .. mesh_y_count(p) - 1 |->
                [j \in 0 .. mesh_x_count(p) - 1 |->
                    IF i % y_mult(p) # 0 \/ j % x_mult(p) = 0
                    THEN m0[i][j]
                    ELSE calc_lagrange(p, m0, lagrange_xpts(p), p.x_count,
                                       get_x_coordinate(p, j), i, 0)]]
    IN  [j \in 0 .. mesh_y_count(p) - 1 |->
            [i \in 0 .. mesh_x_count(p) - 1 |->
                IF j % y_mult(p) = 0
                THEN mx[j][i]
                ELSE calc_lagrange(p, mx, lagrange_ypts(p), p.y_count,
                                   get_y_coordinate(p, j), i, 1)]]

\* _get_x_ctl_pts / _get_y_ctl_pts on one line of values: line is the row
\* (or column) as a function of the dense index, c the index, mult the
\* multiplier and cnt the dense count on that axis
get_ctl_pts(line, c, mult, cnt) ==
    LET last_pt == cnt - 1 - mult
        cand == {i \in mult .. last_pt - 1 :
                    (i - mult) % mult = 0 /\ c > i /\ c < i + mult}
    IN  IF c < mult
        THEN [found |-> TRUE, p0 |-> line[0], p1 |-> line[0], p2 |-> line[mult],
              p3 |-> line[2 * mult], t |-> Rat(c, mult)]
        ELSE IF c > last_pt
        THEN [found |-> TRUE, p0 |-> line[last_pt - mult], p1 |-> line[last_pt],
              p2 |-> line[last_pt + mult], p3 |-> line[last_pt + mult],
              t |-> Rat(c - last_pt, mult)]
        ELSE IF cand = {}
        THEN [found |-> FALSE, p0 |-> Zero, p1 |-> Zero, p2 |-> Zero, p3 |-> Zero,
              t |-> Zero]
        ELSE LET i == CHOOSE k \in cand : \A k2 \in cand : k <= k2
             IN  [found |-> TRUE, p0 |-> line[i - mult], p1 |-> line[i],
                  p2 |-> line[i + mult], p3 |-> line[i + 2 * mult],
                  t |-> Rat(c - i, mult)]

\* _cardinal_spline(p, tension)
cardinal_spline(pts, tension) ==
    LET t == pts.t
        t2 == RMul(t, t)
        t3 == RMul(t2, t)
        m1 == RMul(tension, RSub(pts.p2, pts.p0))
        m2 == RMul(tension, RSub(pts.p3, pts.p1))
        a == RMul(pts.p1, RAdd(RSub(RMul(R(2), t3), RMul(R(3), t2)), One))
        b == RMul(pts.p2, RAdd(RMul(R(-2), t3), RMul(R(3), t2)))
        c == RMul(m1, RAdd(RSub(t3, RMul(R(2), t2)), t))
        d == RMul(m2, RSub(t3, t2))
    IN  RAdd(RAdd(a, b), RAdd(c, d))

\* _sample_bicubic: X rows that hold samples first, then every Y column
sample_bicubic(p, z_matrix) ==
    LET m0 == seed_matrix(p, z_matrix)
        mx == [y \in 0 .. mesh_y_count(p) - 1 |->
                [x \in 0 .. mesh_x_count(p) - 1 |->
                    IF y % y_mult(p) # 0 \/ x % x_mult(p) = 0
                    THEN m0[y][x]
                    ELSE cardinal_spline(
                            get_ctl_pts(m0[y], x, x_mult(p), mesh_x_count(p)),
                            p.tension)]]
    IN  [y \in 0 .. mesh_y_count(p) - 1 |->
            [x \in 0 .. mesh_x_count(p) - 1 |->
                IF y % y_mult(p) = 0
                THEN mx[y][x]
                ELSE cardinal_spline(
                        get_ctl_pts([k \in 0 .. mesh_y_count(p) - 1 |-> mx[k][x]],
                                    y, y_mult(p), mesh_y_count(p)),
                        p.tension)]]

\* the "Error finding x/y control points" BedMeshError of _sample_bicubic
ctl_pts_missing(p) ==
    LET xs == [k \in 0 .. mesh_x_count(p) - 1 |-> Zero]
        ys == [k \in 0 .. mesh_y_count(p) - 1 |-> Zero]
    IN  \/ \E x \in 0 .. mesh_x_count(p) - 1 :
              x % x_mult(p) # 0 /\ ~get_ctl_pts(xs, x, x_mult(p), mesh_x_count(p)).found
        \/ \E y \in 0 .. mesh_y_count(p) - 1 :
              y % y_mult(p) # 0 /\ ~get_ctl_pts(ys, y, y_mult(p), mesh_y_count(p)).found

\* build_mesh raises BedMeshError
build_mesh_raises(p) == p.algo = "bicubic" /\ ctl_pts_missing(p)

\* ZMesh(params, name): probed_matrix and mesh_matrix are None (the empty
\* list here) and name the same object
new_z_mesh(p, name) ==
    [profile_name |-> name,
     mesh_params |-> p,
     probed_matrix |-> <<>>,
     mesh_matrix |-> <<>>,
     same_matrix |-> TRUE,
     mesh_offsets |-> <<Zero, Zero>>]

\* mesh_matrix is not None; a BedMesh.z_mesh of None has none either
has_matrix(mesh) == mesh # NoMesh /\ DOMAIN mesh.mesh_matrix # {}

\* ZMesh(params, name) followed by build_mesh(z_matrix)
build_mesh(p, name, z_matrix) ==
    [profile_name |-> name,
     mesh_params |-> p,
     probed_matrix |-> z_matrix,
     mesh_matrix |-> IF p.algo = "lagrange" THEN sample_lagrange(p, z_matrix)
                     ELSE IF p.algo = "bicubic" THEN sample_bicubic(p, z_matrix)
                     ELSE z_matrix,
     same_matrix |-> (p.algo = "direct"),
     mesh_offsets |-> <<Zero, Zero>>]

\* _get_linear_index that returns t as computed
get_linear_index_free_t(p, coord, axis) ==
    With(<<IF axis = 0 THEN p.min_x ELSE p.min_y,
           IF axis = 0 THEN mesh_x_count(p) ELSE mesh_y_count(p),
           IF axis = 0 THEN mesh_x_dist(p) ELSE mesh_y_dist(p)>>,
         LAMBDA m :
           With(constrain_int(RFloor(RDiv(RSub(coord, m[1]), m[3])), 0, m[2] - 2),
                LAMBDA idx :
                  <<RDiv(RSub(coord, RAdd(m[1], RMul(m[3], R(idx)))), m[3]), idx>>))

\* _get_linear_index(coord, axis): <<t, idx>>
get_linear_index(p, coord, axis) ==
    With(<<IF axis = 0 THEN p.min_x ELSE p.min_y,
           IF axis = 0 THEN mesh_x_count(p) ELSE mesh_y_count(p),
           IF axis = 0 THEN mesh_x_dist(p) ELSE mesh_y_dist(p)>>,
         LAMBDA m :
           \* m = <<mesh_min, mesh_cnt, mesh_dist>>
           With(constrain_int(RFloor(RDiv(RSub(coord, m[1]), m[3])), 0, m[2] - 2),
                LAMBDA idx :
                  \* cfunc(idx) = mesh_min + mesh_dist * idx
                  <<constrain(RDiv(RSub(coord, RAdd(m[1], RMul(m[3], R(idx)))), m[3]),
                              Zero, One),
                    idx>>))

\* calc_z(x, y)
calc_z(mesh, x, y) ==
    IF ~has_matrix(mesh) THEN Zero
    ELSE With(<<get_linear_index(mesh.mesh_params, RAdd(x, mesh.mesh_offsets[1]), 0),
                get_linear_index(mesh.mesh_params, RAdd(y, mesh.mesh_offsets[2]), 1),
                mesh.mesh_matrix>>,
              LAMBDA a :
                \* a = <<<<tx, xidx>>, <<ty, yidx>>, tbl>>
                lerp(a[2][1],
                     lerp(a[1][1], a[3][a[2][2]][a[1][2]], a[3][a[2][2]][a[1][2] + 1]),
                     lerp(a[1][1], a[3][a[2][2] + 1][a[1][2]],
                                   a[3][a[2][2] + 1][a[1][2] + 1])))

\* every node of a matrix lowered by offset
matrix_minus(m, offset) ==
    [j \in DOMAIN m |-> [i \in DOMAIN m[j] |-> RSub(m[j][i], offset)]]

\* set_zero_reference that forgets the sample grid
set_zero_reference_dense_only(mesh, xpos, ypos) ==
    [mesh EXCEPT !.mesh_matrix = matrix_minus(@, calc_z(mesh, xpos, ypos))]

\* set_zero_reference(xpos, ypos): the loop runs over [probed_matrix,
\* mesh_matrix] in that order and lowers each list in place; when both names
\* hold one list, that list is lowered on both passes
set_zero_reference(mesh, xpos, ypos) ==
    LET offset == calc_z(mesh, xpos, ypos)
        pass1 == IF mesh.same_matrix
                 THEN [mesh EXCEPT !.probed_matrix = matrix_minus(@, offset),
                                   !.mesh_matrix = matrix_minus(@, offset)]
                 ELSE [mesh EXCEPT !.probed_matrix = matrix_minus(@, offset)]
    IN  IF mesh.same_matrix
        THEN [pass1 EXCEPT !.probed_matrix = matrix_minus(@, offset),
                           !.mesh_matrix = matrix_minus(@, offset)]
        ELSE [pass1 EXCEPT !.mesh_matrix = matrix_minus(@, offset)]

\* set_mesh_offsets(offsets): offsets is a pair of [given, val]; an axis that
\* is not given (None) keeps its offset
set_mesh_offsets(mesh, offsets) ==
    [mesh EXCEPT !.mesh_offsets =
        <<IF offsets[1].given THEN offsets[1].val ELSE @[1],
          IF offsets[2].given THEN offsets[2].val ELSE @[2]>>]

\* the rows of a matrix flattened into one function over 0 .. n-1
flat(m) ==
    LET rows == Cardinality(DOMAIN m)
        cols == Cardinality(DOMAIN m[0])
    IN  [k \in 0 .. rows * cols - 1 |-> m[k \div cols][k % cols]]

\* get_z_range(): (min, max) of the dense grid, (0, 0) without one
get_z_range(mesh) ==
    IF ~has_matrix(mesh) THEN <<Zero, Zero>>
    ELSE LET f == flat(mesh.mesh_matrix)
             n == Cardinality(DOMAIN f)
         IN  <<RMinOf(f, 0, n - 1), RMaxOf(f, 0, n - 1)>>

\* get_z_average(): mean of the dense grid rounded to the 100th
get_z_average(mesh) ==
    IF ~has_matrix(mesh) THEN Zero
    ELSE LET f == flat(mesh.mesh_matrix)
             n == Cardinality(DOMAIN f)
         IN  round2(RDiv(RSum(f, 0, n - 1), R(n)))

(***************************************************************************)
(* class MoveSplitter                                                      *)
(*                                                                         *)
(* A MoveSplitter object is a record of its attributes; positions are      *)
(* 4-tuples <<x, y, z, e>>.  built says that build_move has run (before    *)
(* it the move attributes do not exist).                                   *)
(***************************************************************************)
NoPos == <<Zero, Zero, Zero, Zero>>

\* MoveSplitter(config, gcode) followed by initialize(mesh, fade_offset)
new_splitter(split_delta_z, move_check_distance, mesh, fade_offset) ==
    [split_delta_z |-> split_delta_z,
     move_check_distance |-> move_check_distance,
     z_mesh |-> mesh,
     fade_offset |-> fade_offset,
     built |-> FALSE,
     prev_pos |-> NoPos, next_pos |-> NoPos, current_pos |-> NoPos,
     z_factor |-> Zero, z_offset |-> Zero,
     traverse_complete |-> FALSE,
     distance_checked |-> Zero,
     total_move_length |-> Zero,
     axis_move |-> <<FALSE, FALSE, FALSE, FALSE>>]

\* the integer part of the square root of n > 0, by Newton's iteration from
\* an estimate r that is not below it
RECURSIVE isqrt_from(_, _)
isqrt_from(n, r) ==
    LET nx == (r + n \div r) \div 2
    IN  IF nx >= r THEN r ELSE isqrt_from(n, nx)
\* the square root of a perfect square, -1 otherwise
isqrt(n) ==
    IF n = 0 THEN 0
    ELSE LET r == isqrt_from(n, n) IN IF r * r = n THEN r ELSE -1

\* _calc_z_offset that leaves the fade offset out
calc_z_offset_no_fade(s, pos) == RMul(s.z_factor, calc_z(s.z_mesh, pos[1], pos[2]))

\* _calc_z_offset(pos) = z_factor * (z - fade_offset) + fade_offset
calc_z_offset(s, pos) ==
    LET z == calc_z(s.z_mesh, pos[1], pos[2])
        offset == s.fade_offset
    IN  RAdd(RMul(s.z_factor, RSub(z, offset)), offset)

\* math.sqrt(sum([d * d for d in axes_d[:3]])) for positions whose distance
\* is rational; -1 for the others
move_length(prev_pos, next_pos) ==
    LET d(i) == RSub(next_pos[i], prev_pos[i])
        sq == RAdd(RAdd(RMul(d(1), d(1)), RMul(d(2), d(2))), RMul(d(3), d(3)))
    IN  IF isqrt(sq[1]) >= 0 /\ isqrt(sq[2]) >= 0
        THEN Rat(isqrt(sq[1]), isqrt(sq[2]))
        ELSE R(-1)

\* build_move(prev_pos, next_pos, factor)
build_move(s, prev_pos, next_pos, factor) ==
    With([s EXCEPT !.built = TRUE,
                   !.prev_pos = prev_pos,
                   !.next_pos = next_pos,
                   !.current_pos = prev_pos,
                   !.z_factor = factor],
         LAMBDA s1 :
           [s1 EXCEPT !.z_offset = calc_z_offset(s1, prev_pos),
                      !.traverse_complete = FALSE,
                      !.distance_checked = Zero,
                      !.total_move_length = move_length(prev_pos, next_pos),
                      !.axis_move = [i \in 1 .. 4 |->
                           ~isclose_e(RSub(next_pos[i], prev_pos[i]), Zero, 10)]])

\* _set_next_move raises "Slice distance is negative or greater than entire
\* move length"
slice_error(s, distance_from_prev) ==
    LET t == RDiv(distance_from_prev, s.total_move_length)
    IN  RLt(One, t) \/ RLt(t, Zero)

\* _set_next_move(distance_from_prev): the new current_pos
set_next_move(s, distance_from_prev) ==
    With(RDiv(distance_from_prev, s.total_move_length),
         LAMBDA t :
           [i \in 1 .. 4 |->
               IF s.axis_move[i] THEN lerp(t, s.prev_pos[i], s.next_pos[i])
               ELSE s.current_pos[i]])

\* the test that makes split() return a sub-move, without its threshold
needs_split_any_change(s, next_z) == next_z # s.z_offset

\* abs(next_z - self.z_offset) >= self.split_delta_z
needs_split(s, next_z) == RLe(s.split_delta_z, RAbs(RSub(next_z, s.z_offset)))

\* what split() returns: a position, None, or the gcode error it raised
Ret(kind, pos) == [kind |-> kind, pos |-> pos]

\* the end of split(): the end point with its own offset
split_end(s) ==
    With(calc_z_offset(s, s.next_pos),
         LAMBDA z_off :
           With([s.next_pos EXCEPT ![3] = RAdd(@, z_off)],
                LAMBDA cur :
                  [s |-> [s EXCEPT !.current_pos = cur, !.z_offset = z_off,
                                   !.traverse_complete = TRUE],
                   ret |-> Ret("move", cur)]))

\* one pass of the while loop of split() at the checkpoint dc, on the object
\* s1 that _set_next_move left: return a sub-move or go on (then s1 is handed
\* back with ret.kind = "continue")
split_check(s1) ==
    With(calc_z_offset(s1, s1.current_pos),
         LAMBDA next_z :
           IF needs_split(s1, next_z)
           THEN [s |-> [s1 EXCEPT !.z_offset = next_z],
                 ret |-> Ret("move", [s1.current_pos EXCEPT ![3] = RAdd(@, next_z)])]
           ELSE [s |-> s1, ret |-> Ret("continue", NoPos)])

\* the while loop of split() that also runs when the next check lands on
\* the end of the move
RECURSIVE split_scan_through_end(_)
split_scan_through_end(s) ==
    IF RLe(RAdd(s.distance_checked, s.move_check_distance), s.total_move_length)
    THEN With(RAdd(s.distance_checked, s.move_check_distance),
              LAMBDA dc :
                IF slice_error(s, dc)
                THEN [s |-> [s EXCEPT !.distance_checked = dc],
                      ret |-> Ret("error", NoPos)]
                ELSE With(split_check([s EXCEPT !.distance_checked = dc,
                                                !.current_pos = set_next_move(s, dc)]),
                          LAMBDA r :
                            IF r.ret.kind = "continue" THEN split_scan_through_end(r.s)
                            ELSE r))
    ELSE split_end(s)

\* the while loop of split(), then the end of the move
RECURSIVE split_scan(_)
split_scan(s) ==
    IF RLt(RAdd(s.distance_checked, s.move_check_distance), s.total_move_length)
    THEN With(RAdd(s.distance_checked, s.move_check_distance),
              LAMBDA dc :
                IF slice_error(s, dc)
                THEN [s |-> [s EXCEPT !.distance_checked = dc],
                      ret |-> Ret("error", NoPos)]
                ELSE With(split_check([s EXCEPT !.distance_checked = dc,
                                                !.current_pos = set_next_move(s, dc)]),
                          LAMBDA r :
                            IF r.ret.kind = "continue" THEN split_scan(r.s) ELSE r))
    ELSE split_end(s)

\* split() while the traverse is not complete
split_traverse(s) ==
    IF s.axis_move[1] \/ s.axis_move[2] THEN split_scan(s) ELSE split_end(s)

\* split() without the test of traverse_complete
split_no_guard(s) == split_traverse(s)

\* split(): [s |-> the object afterwards, ret |-> what the call returned]
split(s) ==
    IF ~s.traverse_complete THEN split_traverse(s)
    ELSE [s |-> s, ret |-> Ret("none", NoPos)]

(***************************************************************************)
(* Python lists and optional values                                        *)
(***************************************************************************)
\* len(l) of a list, a list from a sequence and back, l + [e]
ListLen(l) == Cardinality(DOMAIN l)
ToList(seq) == [i \in 0 .. Len(seq) - 1 |-> seq[i + 1]]
ToSeq(l) == [i \in 1 .. ListLen(l) |-> l[i - 1]]

\* an optional value: None, or a value that was given
NoValue == [given |-> FALSE, val |-> Zero]
NoPoint == [given |-> FALSE, val |-> <<Zero, Zero>>]
NoPair == [given |-> FALSE, val |-> <<0, 0>>]
NoCount == [given |-> FALSE, val |-> 0]
NoName == [given |-> FALSE, val |-> ""]
Given(v) == [given |-> TRUE, val |-> v]

\* max and min of two integers
IMax(a, b) == IF a >= b THEN a ELSE b
IMin(a, b) == IF a <= b THEN a ELSE b

\* math.floor(a * k) / k
floor_to(a, k) == Rat(RFloor(RMul(a, R(k))), k)

(***************************************************************************)
(* class BedMesh                                                           *)
(*                                                                         *)
(* The objects that call each other are kept in one record                 *)
(*   o = [bedmesh, bmc, probe_mgr, pmgr]                                   *)
(* and a method that can raise returns [o |-> the objects afterwards,      *)
(* raised |-> "none" or the error].                                        *)
(***************************************************************************)
FADE_DISABLE == 2147483647

\* [[]]
EmptyMatrix == [i \in {0} |-> <<>>]

\* get_mesh_matrix() and get_probed_matrix(): the matrix rounded to six
\* places, [[]] without one
rounded_matrix(m) ==
    IF DOMAIN m = {} THEN EmptyMatrix
    ELSE [j \in DOMAIN m |-> [i \in DOMAIN m[j] |-> round6(m[j][i])]]
get_mesh_matrix(mesh) == rounded_matrix(mesh.mesh_matrix)
get_probed_matrix(mesh) == rounded_matrix(mesh.probed_matrix)

\* update_status()
update_status(b, profiles) ==
    [b EXCEPT !.status =
        IF b.z_mesh = NoMesh
        THEN [profile_name |-> "",
              mesh_min |-> <<Zero, Zero>>,
              mesh_max |-> <<Zero, Zero>>,
              probed_matrix |-> EmptyMatrix,
              mesh_matrix |-> EmptyMatrix,
              profiles |-> profiles]
        ELSE [profile_name |-> b.z_mesh.profile_name,
              mesh_min |-> <<b.z_mesh.mesh_params.min_x, b.z_mesh.mesh_params.min_y>>,
              mesh_max |-> <<b.z_mesh.mesh_params.max_x, b.z_mesh.mesh_params.max_y>>,
              probed_matrix |-> get_probed_matrix(b.z_mesh),
              mesh_matrix |-> get_mesh_matrix(b.z_mesh),
              profiles |-> profiles]]

\* MoveSplitter.initialize(mesh, fade_offset)
initialize(s, mesh, fade_offset) == [s EXCEPT !.z_mesh = mesh, !.fade_offset = fade_offset]

\* the end of set_mesh: the mesh (or None) becomes the active one
set_mesh_install(o, mesh, fade_target, log_fade_complete) ==
    [o EXCEPT !.bedmesh =
        update_status([@ EXCEPT !.log_fade_complete = log_fade_complete,
                                !.fade_target = fade_target,
                                !.tool_offset = Zero,
                                !.z_mesh = mesh,
                                !.splitter = initialize(@, mesh, fade_target)],
                      o.pmgr.profiles)]

\* a rejection that leaves z_mesh and fade_target as they were
set_mesh_reject_keeps_map(o) == [o EXCEPT !.bedmesh.log_fade_complete = TRUE]

\* a rejection that drops the map and leaves fade_target as it was
set_mesh_reject_keeps_fade_target(o) ==
    [o EXCEPT !.bedmesh = [@ EXCEPT !.log_fade_complete = TRUE, !.z_mesh = NoMesh]]

\* what set_mesh does before it raises: z_mesh = None, fade_target = 0.0
set_mesh_reject(o) ==
    [o EXCEPT !.bedmesh = [@ EXCEPT !.log_fade_complete = TRUE,
                                    !.z_mesh = NoMesh,
                                    !.fade_target = Zero]]

\* set_mesh(mesh)
set_mesh(o, mesh) ==
    IF mesh # NoMesh /\ o.bedmesh.fade_end # R(FADE_DISABLE)
    THEN With(<<get_z_range(mesh),
                IF o.bedmesh.base_fade_target.given
                THEN o.bedmesh.base_fade_target.val
                ELSE get_z_average(mesh)>>,
              LAMBDA a :
                \* a = <<<<min_z, max_z>>, fade_target>>
                IF /\ o.bedmesh.base_fade_target.given
                   /\ ~(RLe(a[1][1], a[2]) /\ RLe(a[2], a[1][2]))
                   /\ a[2] # Zero
                THEN [o |-> set_mesh_reject(o), raised |-> "fade_target"]
                ELSE IF RLe(o.bedmesh.fade_dist, RMax(RAbs(a[1][1]), RAbs(a[1][2])))
                THEN [o |-> set_mesh_reject(o), raised |-> "fade_range"]
                ELSE [o |-> set_mesh_install(o, mesh, a[2], TRUE), raised |-> "none"])
    ELSE [o |-> set_mesh_install(o, mesh, Zero, o.bedmesh.log_fade_complete),
          raised |-> "none"]

\* BedMesh.__init__: the attributes, before the first update_status
new_bed_mesh(config) ==
    [z_mesh |-> NoMesh,
     fade_start |-> IF RLe(RSub(config.fade_end, config.fade_start), Zero)
                    THEN R(FADE_DISABLE) ELSE config.fade_start,
     fade_end |-> IF RLe(RSub(config.fade_end, config.fade_start), Zero)
                  THEN R(FADE_DISABLE) ELSE config.fade_end,
     fade_dist |-> RSub(config.fade_end, config.fade_start),
     log_fade_complete |-> FALSE,
     base_fade_target |-> config.fade_target,
     fade_target |-> Zero,
     tool_offset |-> Zero,
     splitter |-> new_splitter(config.split_delta_z, config.move_check_distance,
                               NoMesh, Zero),
     status |-> [profile_name |-> ""]]

\* cmd_BED_MESH_CLEAR
cmd_BED_MESH_CLEAR(o) == set_mesh(o, NoMesh)

\* get_z_factor that leaves the tool offset out
get_z_factor_no_tool_offset(b, z_pos) ==
    IF RLe(b.fade_end, z_pos) THEN Zero
    ELSE IF RLe(b.fade_start, z_pos) THEN RDiv(RSub(b.fade_end, z_pos), b.fade_dist)
    ELSE One

\* get_z_factor(z_pos)
get_z_factor(b, z_pos) ==
    With(RAdd(z_pos, b.tool_offset),
         LAMBDA zp :
           IF RLe(b.fade_end, zp) THEN Zero
           ELSE IF RLe(b.fade_start, zp) THEN RDiv(RSub(b.fade_end, zp), b.fade_dist)
           ELSE One)

\* the factor get_position works out from the toolhead position: a is
\* <<max_adj, fade_z_pos, z_adj>>; the division raises ZeroDivisionError
\* when fade_dist = z_adj
position_factor(b, a) ==
    IF RLe(b.fade_end, RMin(a[2], RSub(a[2], a[1])))
    THEN [factor |-> Zero, raised |-> "none"]
    ELSE IF RLe(b.fade_start, RMax(a[2], RSub(a[2], a[1])))
    THEN IF b.fade_dist = a[3]
         THEN [factor |-> Zero, raised |-> "zero_division"]
         ELSE [factor |-> constrain(RDiv(RSub(RAdd(b.fade_end, b.fade_target), a[2]),
                                         RSub(b.fade_dist, a[3])),
                                    Zero, One),
               raised |-> "none"]
    ELSE [factor |-> One, raised |-> "none"]

\* get_position() with the toolhead at cur_pos: [pos |-> the position
\* returned, which is also the new last_position, raised]
get_position(b, last_pos, cur_pos) ==
    IF b.z_mesh = NoMesh
    THEN [pos |-> [cur_pos EXCEPT ![3] = RSub(@, b.fade_target)], raised |-> "none"]
    ELSE With(calc_z(b.z_mesh, cur_pos[1], cur_pos[2]),
              LAMBDA max_adj :
                With(position_factor(b, <<max_adj, RAdd(cur_pos[3], b.tool_offset),
                                          RSub(max_adj, b.fade_target)>>),
                     LAMBDA f :
                       IF f.raised # "none"
                       THEN [pos |-> last_pos, raised |-> f.raised]
                       ELSE [pos |-> [cur_pos EXCEPT ![3] =
                                         RSub(@, RAdd(RMul(f.factor,
                                                           RSub(max_adj, b.fade_target)),
                                                      b.fade_target))],
                             raised |-> "none"]))

\* the while loop of move(): every sub-move split() returns goes to the
\* toolhead, whose position th becomes; None from split() is an error; n
\* counts the calls of split()
RECURSIVE move_loop(_, _, _)
move_loop(s, th, n) ==
    IF s.traverse_complete
    THEN [splitter |-> s, toolhead |-> th, raised |-> "none", calls |-> n]
    ELSE With(split(s),
              LAMBDA r :
                IF r.ret.kind = "move" THEN move_loop(r.s, r.ret.pos, n + 1)
                ELSE [splitter |-> r.s, toolhead |-> th,
                      raised |-> IF r.ret.kind = "none" THEN "split" ELSE "slice",
                      calls |-> n + 1])

\* move(newpos, speed) with the toolhead at th
move(b, last_pos, th, newpos) ==
    With(get_z_factor(b, newpos[3]),
         LAMBDA factor :
           IF b.z_mesh = NoMesh \/ factor = Zero
           THEN [bedmesh |-> [b EXCEPT !.log_fade_complete = FALSE],
                 toolhead |-> [newpos EXCEPT ![3] = RAdd(@, b.fade_target)],
                 last_position |-> newpos,
                 raised |-> "none", split_used |-> FALSE, calls |-> 0]
           ELSE With(move_loop(build_move(b.splitter, last_pos, newpos, factor), th, 0),
                     LAMBDA r :
                       [bedmesh |-> [b EXCEPT !.splitter = r.splitter],
                        toolhead |-> r.toolhead,
                        last_position |-> IF r.raised = "none" THEN newpos ELSE last_pos,
                        raised |-> r.raised, split_used |-> TRUE, calls |-> r.calls]))

\* cmd_BED_MESH_OFFSET with X, Y and ZFADE as optional values; it ends with
\* gcode_move.reset_last_position(), which reads get_position()
cmd_BED_MESH_OFFSET(b, last_pos, th, x, y, zfade) ==
    IF b.z_mesh = NoMesh
    THEN [bedmesh |-> b, last_position |-> last_pos, raised |-> "none"]
    ELSE With([b EXCEPT !.z_mesh = set_mesh_offsets(@, <<x, y>>),
                        \* the splitter holds the same ZMesh object
                        !.splitter.z_mesh = set_mesh_offsets(@, <<x, y>>),
                        !.tool_offset = IF zfade.given THEN zfade.val ELSE @],
              LAMBDA b1 :
                With(get_position(b1, last_pos, th),
                     LAMBDA g :
                       [bedmesh |-> b1, last_position |-> g.pos, raised |-> g.raised]))

(***************************************************************************)
(* class ProbeManager                                                      *)
(*                                                                         *)
(* A point is a pair <<x, y>>; a faulty region is a pair of points         *)
(* <<min_c, max_c>>; substitutes maps the index of a base point to the     *)
(* list of points probed in its place.  probing says that start_probe has  *)
(* handed the path to the probe helper and probe_finalize is still due.    *)
(***************************************************************************)
\* _init_faulty_regions: each region with its corners put in order
init_faulty_regions(regions) ==
    [i \in DOMAIN regions |->
        <<<<RMin(regions[i][1][1], regions[i][2][1]),
            RMin(regions[i][1][2], regions[i][2][2])>>,
          <<RMax(regions[i][1][1], regions[i][2][1]),
            RMax(regions[i][1][2], regions[i][2][2])>>>>]

\* the four corners c1, c2, c3, c4 of a region
corners(r) == {r[1], <<r[1][1], r[2][2]>>, r[2], <<r[2][1], r[1][2]>>}

\* _init_faulty_regions raises: a corner of one region lies within another
faulty_regions_overlap(regions) ==
    \E i, j \in DOMAIN regions :
        /\ j < i
        /\ \/ \E c \in corners(regions[j]) : within(c, regions[i][1], regions[i][2], Zero)
           \/ \E c \in corners(regions[i]) : within(c, regions[j][1], regions[j][2], Zero)

\* ProbeManager.__init__
new_probe_manager(config) ==
    [cfg_overshoot |-> config.scan_overshoot,
     overshoot |-> config.scan_overshoot,
     faulty_regions |-> init_faulty_regions(config.faulty_regions),
     zero_ref_pos |-> config.zero_reference_position,
     zref_mode |-> "DISABLED",
     base_points |-> <<>>,
     substitutes |-> <<>>,
     is_round |-> config.mesh_radius.given,
     probing |-> FALSE]

\* a lattice whose rows all run in the positive X direction
lattice_one_way(x_cnt, y_cnt, min_x, max_x, min_y, x_dist, y_dist) ==
    [k \in 0 .. x_cnt * y_cnt - 1 |->
        <<RAdd(min_x, RMul(R(k % x_cnt), x_dist)),
          RAdd(min_y, RMul(R(k \div x_cnt), y_dist))>>]

\* the zig-zag lattice of generate_points before the round-bed filter:
\* point k is column k % x_cnt of row k // x_cnt, as offsets from the origin
lattice(x_cnt, y_cnt, min_x, max_x, min_y, x_dist, y_dist) ==
    [k \in 0 .. x_cnt * y_cnt - 1 |->
        <<IF (k \div x_cnt) % 2 = 0
          THEN RAdd(min_x, RMul(R(k % x_cnt), x_dist))
          ELSE RSub(max_x, RMul(R(k % x_cnt), x_dist)),
          RAdd(min_y, RMul(R(k \div x_cnt), y_dist))>>]

\* math.sqrt(x * x + y * y) <= radius
within_radius(pt, radius) ==
    RLe(RAdd(RMul(pt[1], pt[1]), RMul(pt[2], pt[2])), RMul(radius, radius))

\* every point kept on a round bed as well
lattice_points_unfiltered(pts, radius, origin) ==
    IF ~radius.given THEN pts
    ELSE [q \in DOMAIN pts |-> <<RAdd(origin[1], pts[q][1]), RAdd(origin[2], pts[q][2])>>]

\* the points generate_points keeps: all of them on a rectangular bed, those
\* within the radius, moved by the origin, on a round bed
lattice_points(pts, radius, origin) ==
    IF ~radius.given THEN pts
    ELSE With(SelectSeq(ToSeq(pts), LAMBDA pt : within_radius(pt, radius.val)),
              LAMBDA kept :
                [q \in 0 .. Len(kept) - 1 |->
                    <<RAdd(origin[1], kept[q + 1][1]), RAdd(origin[2], kept[q + 1][2])>>])

\* is_reversed when the loop of _process_faulty_regions is at index i
is_reversed(points, i) ==
    Cardinality({k \in 1 .. i : ~isclose(points[k][2], points[k - 1][2], Zero)}) % 2 = 1

\* the first faulty region that holds coord, -1 without one
region_of(regions, coord) ==
    With({r \in DOMAIN regions : within(coord, regions[r][1], regions[r][2], <<1, 100000>>)},
         LAMBDA hits : IF hits = {} THEN -1
                       ELSE CHOOSE r \in hits : \A r2 \in hits : r <= r2)

\* adj_coords of a point in the region <<min_c, max_c>>
adj_coords(coord, region, reversed) ==
    IF reversed
    THEN <<<<region[2][1], coord[2]>>, <<coord[1], region[1][2]>>,
           <<coord[1], region[2][2]>>, <<region[1][1], coord[2]>>>>
    ELSE <<<<region[1][1], coord[2]>>, <<coord[1], region[1][2]>>,
           <<coord[1], region[2][2]>>, <<region[2][1], coord[2]>>>>

\* valid_coords: the adj_coords within the mesh boundary
valid_coords(adj, min_pt, max_pt, radius) ==
    ToList(SelectSeq(adj, LAMBDA ac :
        IF ~radius.given THEN within(ac, min_pt, max_pt, <<1, 1000000>>)
        ELSE within_radius(ac, radius.val)))

\* the loop of _process_faulty_regions: for each base point whether it lies
\* in a faulty region and the valid substitutes it has
substitute_table(pm, min_pt, max_pt, radius) ==
    [i \in DOMAIN pm.base_points |->
        With(region_of(pm.faulty_regions, pm.base_points[i]),
             LAMBDA r :
                IF r = -1 THEN [hit |-> FALSE, coords |-> <<>>]
                ELSE [hit |-> TRUE,
                      coords |-> valid_coords(
                          adj_coords(pm.base_points[i], pm.faulty_regions[r],
                                     is_reversed(pm.base_points, i)),
                          min_pt, max_pt, radius)])]

\* _process_faulty_regions: [substitutes, raised]; substitutes holds what was
\* stored before a raise
process_faulty_regions(pm, min_pt, max_pt, radius) ==
    IF DOMAIN pm.faulty_regions = {} THEN [substitutes |-> <<>>, raised |-> "none"]
    ELSE IF /\ pm.zref_mode = "PROBE"
            /\ \E r \in DOMAIN pm.faulty_regions :
                 within(pm.zero_ref_pos.val, pm.faulty_regions[r][1],
                        pm.faulty_regions[r][2], Zero)
    THEN [substitutes |-> <<>>, raised |-> "zero_ref_in_faulty_region"]
    ELSE With(substitute_table(pm, min_pt, max_pt, radius),
              LAMBDA t :
                With({i \in DOMAIN t : t[i].hit /\ DOMAIN t[i].coords = {}},
                     LAMBDA failed :
                       [substitutes |->
                           [i \in {k \in DOMAIN t :
                                      t[k].hit /\ \A f \in failed : k < f} |->
                               t[i].coords],
                        raised |-> IF failed = {} THEN "none" ELSE "no_substitute"]))

\* a classification that is made once and kept: a reference that has a
\* class other than DISABLED keeps it
zero_ref_mode_kept(pm, mesh_min, mesh_max, probe_method) ==
    IF pm.zref_mode # "DISABLED" THEN pm.zref_mode
    ELSE IF ~pm.zero_ref_pos.given \/ probe_method = "manual" THEN "DISABLED"
    ELSE IF within(pm.zero_ref_pos.val, mesh_min, mesh_max, Zero) THEN "IN_MESH"
    ELSE "PROBE"

\* generate_points: the class of the zero reference
zero_ref_mode(pm, mesh_min, mesh_max, probe_method) ==
    IF ~pm.zero_ref_pos.given \/ probe_method = "manual" THEN "DISABLED"
    ELSE IF within(pm.zero_ref_pos.val, mesh_min, mesh_max, Zero) THEN "IN_MESH"
    ELSE "PROBE"

\* generate_points(mesh_config, mesh_min, mesh_max, radius, origin,
\* probe_method): [probe_mgr, raised]
generate_points(pm, orig_config, mesh_config, mesh_min, mesh_max, radius, origin, probe_method) ==
    With(<<floor_to(RDiv(RSub(mesh_max[1], mesh_min[1]), R(mesh_config.x_count - 1)), 100),
           floor_to(RDiv(RSub(mesh_max[2], mesh_min[2]), R(mesh_config.y_count - 1)), 100)>>,
         LAMBDA d :
           IF RLt(d[1], One) \/ RLt(d[2], One)
           THEN [probe_mgr |-> pm, raised |-> "too_close"]
           ELSE With(IF radius.given
                     THEN [min_x |-> RNeg(RMul(R(mesh_config.x_count \div 2), d[1])),
                           max_x |-> RMul(R(mesh_config.x_count \div 2), d[1]),
                           min_y |-> RNeg(RMul(R(mesh_config.x_count \div 2), d[1])),
                           max_y |-> RMul(R(mesh_config.x_count \div 2), d[1]),
                           x_dist |-> d[1], y_dist |-> d[1]]
                     ELSE [min_x |-> mesh_min[1],
                           max_x |-> RAdd(mesh_min[1],
                                          RMul(d[1], R(mesh_config.x_count - 1))),
                           min_y |-> mesh_min[2],
                           max_y |-> mesh_max[2],
                           x_dist |-> d[1], y_dist |-> d[2]],
                     LAMBDA g :
                       With([pm EXCEPT
                               !.zref_mode =
                                   zero_ref_mode(pm, mesh_min, mesh_max, probe_method),
                               !.base_points =
                                   lattice_points(
                                       lattice(mesh_config.x_count, mesh_config.y_count,
                                               g.min_x, g.max_x, g.min_y, g.x_dist, g.y_dist),
                                       radius, origin),
                               !.substitutes = <<>>,
                               !.overshoot =
                                   RAdd(pm.cfg_overshoot,
                                        R(RFloor(RMin(
                                            RMax(Zero, RSub(g.min_x, orig_config.mesh_min[1])),
                                            RMax(Zero, RSub(orig_config.mesh_max[1], g.max_x))))))],
                            LAMBDA pm1 :
                              With(process_faulty_regions(pm1, <<g.min_x, g.min_y>>,
                                                          <<g.max_x, g.max_y>>, radius),
                                   LAMBDA f :
                                     [probe_mgr |-> [pm1 EXCEPT !.substitutes = f.substitutes],
                                      raised |-> f.raised]))))

\* get_std_path() from index idx on, as a sequence
RECURSIVE std_path_from(_, _)
std_path_from(pm, idx) ==
    IF idx >= ListLen(pm.base_points) THEN <<>>
    ELSE (IF idx \in DOMAIN pm.substitutes THEN ToSeq(pm.substitutes[idx])
          ELSE <<pm.base_points[idx]>>) \o std_path_from(pm, idx + 1)

\* get_std_path that ends with the zero reference position whenever the
\* reference is enabled
get_std_path_any_ref(pm) ==
    ToList(std_path_from(pm, 0)
           \o (IF pm.zref_mode # "DISABLED" THEN <<pm.zero_ref_pos.val>> ELSE <<>>))

\* get_std_path()
get_std_path(pm) ==
    ToList(std_path_from(pm, 0)
           \o (IF pm.zref_mode = "PROBE" THEN <<pm.zero_ref_pos.val>> ELSE <<>>))

\* the keys of a dict with integer keys, ascending
RECURSIVE sorted_keys(_)
sorted_keys(S) ==
    IF S = {} THEN <<>>
    ELSE With(CHOOSE m \in S : \A n \in S : m <= n,
              LAMBDA m : <<m>> \o sorted_keys(S \ {m}))

\* what the generators of the rapid path yield: a point and whether it is a
\* sample point; the points of the arcs of a direction change, whose
\* coordinates are sines and cosines, are one entry that holds the origin
\* of the first arc
Sample(pt) == [pt |-> pt, is_sample_point |-> TRUE, arc |-> FALSE]
Travel(pt) == [pt |-> pt, is_sample_point |-> FALSE, arc |-> FALSE]
ArcTravel(origin) == [pt |-> origin, is_sample_point |-> FALSE, arc |-> TRUE]

\* _gen_dir_change(last_pt, next_pt, ascnd_x), as travel entries
gen_dir_change(pm, last_pt, next_pt, ascnd_x) ==
    IF pm.overshoot = Zero THEN <<>>
    ELSE With(<<IF ascnd_x THEN One ELSE R(-1),
                IF RLe(R(3), pm.overshoot) THEN R(2) ELSE pm.overshoot>>,
              LAMBDA a :
                \* a = <<xdir, overshoot>>
                With(<<RAdd(last_pt[1], RMul(a[2], a[1])), last_pt[2]>>,
                     LAMBDA ovr_pt :
                       IF RLt(pm.overshoot, R(3))
                       THEN <<Travel(ovr_pt),
                              Travel(<<RAdd(next_pt[1], RMul(a[2], a[1])), next_pt[2]>>)>>
                       ELSE <<Travel(ovr_pt),
                              ArcTravel(<<ovr_pt[1],
                                          RAdd(last_pt[2],
                                               RMin(RDiv(RAbs(RSub(next_pt[2], last_pt[2])),
                                                         R(2)),
                                                    RMin(RSub(pm.overshoot, R(2)),
                                                         R(8))))>>)>>))

\* _gen_faulty_path with three or four substitutes at a direction change:
\* what follows the first substitute
faulty_path_turn(pm, subs, ascnd_x) ==
    (IF pm.overshoot # Zero THEN gen_dir_change(pm, subs[0], subs[1], ascnd_x)
     ELSE With(IF ascnd_x THEN R(-2) ELSE R(2),
               LAMBDA shift :
                 <<Travel(<<RAdd(subs[0][1], shift), subs[0][2]>>),
                   Travel(<<RAdd(subs[0][1], shift), subs[1][2]>>)>>))
    \o <<Sample(subs[1])>>
    \* last_pt, next_pt = subs[1:3], then the horizontal move
    \o <<Travel(<<subs[2][1], subs[1][2]>>), Sample(subs[2])>>

\* _gen_faulty_path with three or four substitutes inside a row: what
\* follows the first substitute
faulty_path_inside(subs, ascnd_x) ==
    <<Travel(<<subs[0][1], subs[1][2]>>), Sample(subs[1])>>
    \o (IF ListLen(subs) = 4
        THEN With(IF ascnd_x THEN R(2) ELSE R(-2),
                  LAMBDA shift :
                    <<Travel(<<RAdd(subs[1][1], shift), subs[1][2]>>),
                      Travel(<<RSub(subs[2][1], shift), subs[2][2]>>),
                      Sample(subs[2]),
                      \* last_pt, next_pt = subs[2:4]
                      Travel(<<subs[3][1], subs[2][2]>>), Sample(subs[3])>>)
        ELSE <<Travel(<<subs[2][1], subs[1][2]>>), Sample(subs[2])>>)

\* first_corner of _gen_faulty_path
first_corner(pm, idx) ==
    With(sorted_keys(DOMAIN pm.substitutes),
         LAMBDA sorted_sub_idx :
           /\ ListLen(pm.substitutes[idx]) = 2
           /\ idx < Len(sorted_sub_idx)
           /\ sorted_sub_idx[idx + 1] = idx)

\* _gen_faulty_path(last_pt, idx, ascnd_x, dir_change)
gen_faulty_path(pm, last_pt, idx, ascnd_x, dir_change) ==
    With(pm.substitutes[idx],
         LAMBDA subs :
           (IF dir_change THEN gen_dir_change(pm, last_pt, subs[0], ascnd_x) ELSE <<>>)
           \o (IF pm.is_round THEN [k \in 1 .. ListLen(subs) |-> Sample(subs[k - 1])]
               ELSE <<Sample(subs[0])>>
                    \o (IF ListLen(subs) = 1 THEN <<>>
                        ELSE IF ListLen(subs) = 2
                        THEN <<Travel(IF first_corner(pm, idx) \/ dir_change
                                      THEN <<subs[1][1], subs[0][2]>>
                                      ELSE <<subs[0][1], subs[1][2]>>),
                               Sample(subs[1])>>
                        ELSE IF dir_change THEN faulty_path_turn(pm, subs, ascnd_x)
                        ELSE faulty_path_inside(subs, ascnd_x))))

\* the loop of iter_rapid_path from index idx on, with last_mv_pt and
\* ascnd_x as the loop has them there; last_base_pt is the point before
RECURSIVE rapid_path_from(_, _, _, _)
rapid_path_from(pm, idx, last_mv_pt, ascnd_x) ==
    IF idx >= ListLen(pm.base_points) THEN <<>>
    ELSE With(<<pm.base_points[idx],
                ~isclose_e(pm.base_points[idx][2],
                           pm.base_points[IF idx = 0 THEN 0 ELSE idx - 1][2], 6)>>,
              LAMBDA a :
                \* a = <<pt, dir_change>>
                With(IF idx \in DOMAIN pm.substitutes
                     THEN gen_faulty_path(pm, last_mv_pt, idx, ascnd_x, a[2])
                     ELSE (IF a[2] THEN gen_dir_change(pm, last_mv_pt, a[1], ascnd_x)
                           ELSE <<>>) \o <<Sample(a[1])>>,
                     LAMBDA out :
                       out \o rapid_path_from(pm, idx + 1, out[Len(out)].pt,
                                              ascnd_x # a[2])))

\* what iter_rapid_path yields after the loop: the zero reference position
\* when it is probed
rapid_path_ref(pm, last_mv_pt, ascnd_x) ==
    IF pm.zref_mode # "PROBE" THEN <<>>
    ELSE (IF pm.overshoot # Zero
          THEN With(RMin(R(4), pm.overshoot),
                    LAMBDA ovs :
                      <<Travel(<<RAdd(last_mv_pt[1], IF ascnd_x THEN ovs ELSE RNeg(ovs)),
                                 last_mv_pt[2]>>)>>)
          ELSE <<>>)
         \o <<Sample(pm.zero_ref_pos.val)>>

\* ascnd_x after the loop of iter_rapid_path: it flips at every direction
\* change
ascnd_x_at_end(pm) ==
    Cardinality({k \in 1 .. ListLen(pm.base_points) - 1 :
                    ~isclose_e(pm.base_points[k][2], pm.base_points[k - 1][2], 6)}) % 2 = 0

\* list(iter_rapid_path())
iter_rapid_path(pm) ==
    With(IF pm.overshoot # Zero
         THEN <<Travel(<<RSub(pm.base_points[0][1], RMin(R(8), pm.overshoot)),
                         pm.base_points[0][2]>>)>>
         ELSE <<>>,
         LAMBDA first :
           With(first \o rapid_path_from(pm, 0,
                                         IF first = <<>> THEN pm.base_points[0]
                                         ELSE first[1].pt,
                                         TRUE),
                LAMBDA body :
                  ToList(body \o rapid_path_ref(pm, body[Len(body)].pt,
                                                ascnd_x_at_end(pm)))))

\* the points iter_rapid_path flags as sample points, in the order it yields
\* them
rapid_samples(pm) ==
    With(SelectSeq(ToSeq(iter_rapid_path(pm)), LAMBDA e : e.is_sample_point),
         LAMBDA s : ToList([k \in 1 .. Len(s) |-> s[k].pt]))

\* start_probe(gcmd): the probe helper starts on the path it was given
start_probe(pm) == [pm EXCEPT !.probing = TRUE]

(***************************************************************************)
(* class ProfileManager                                                    *)
(*                                                                         *)
(* profiles maps a profile name to [points, mesh_params].                  *)
(***************************************************************************)
\* ProfileManager.__init__ with the profiles stored in the configuration
new_profile_manager(config) == [profiles |-> config.profiles]

\* save_profile(prof_name); the points are kept as they are in the map (the
\* code keeps them rounded to six places, a change below the heights told
\* apart here)
save_profile(o, prof_name) ==
    IF o.bedmesh.z_mesh = NoMesh THEN o
    ELSE With([n \in DOMAIN o.pmgr.profiles \cup {prof_name} |->
                  IF n = prof_name
                  THEN [points |-> o.bedmesh.z_mesh.probed_matrix,
                        mesh_params |-> o.bedmesh.z_mesh.mesh_params]
                  ELSE o.pmgr.profiles[n]],
              LAMBDA profiles :
                [o EXCEPT !.pmgr.profiles = profiles,
                          !.bedmesh = update_status(@, profiles)])

\* load_profile(prof_name): [o, raised, offered, set_mesh_called] where offered
\* is the mesh handed to set_mesh
load_profile(o, prof_name) ==
    IF prof_name \notin DOMAIN o.pmgr.profiles
    THEN [o |-> o, raised |-> "unknown_profile", offered |-> NoMesh,
          set_mesh_called |-> FALSE]
    ELSE IF build_mesh_raises(o.pmgr.profiles[prof_name].mesh_params)
    THEN [o |-> o, raised |-> "build_mesh", offered |-> NoMesh,
          set_mesh_called |-> FALSE]
    ELSE With(build_mesh(o.pmgr.profiles[prof_name].mesh_params, prof_name,
                         o.pmgr.profiles[prof_name].points),
              LAMBDA z_mesh :
                With(set_mesh(o, z_mesh),
                     LAMBDA r : [o |-> r.o, raised |-> r.raised, offered |-> z_mesh,
                                 set_mesh_called |-> TRUE]))

(***************************************************************************)
(* class BedMeshCalibrate                                                  *)
(*                                                                         *)
(* A command (gcmd) is a record of its parameters, each an optional value. *)
(***************************************************************************)
ALGOS == {"lagrange", "bicubic"}

\* _verify_algorithm that keeps bicubic on fewer than 4 points
verify_algorithm_keeps_bicubic(params) ==
    IF params.algo \notin ALGOS
    THEN [mesh_config |-> params, raised |-> "unknown_algorithm"]
    ELSE IF IMax(params.mesh_x_pps, params.mesh_y_pps) = 0
    THEN [mesh_config |-> [params EXCEPT !.algo = "direct"], raised |-> "none"]
    ELSE IF params.algo = "lagrange" /\ IMax(params.x_count, params.y_count) > 6
    THEN [mesh_config |-> params, raised |-> "lagrange_probe_count"]
    ELSE IF /\ params.algo = "bicubic" /\ IMin(params.x_count, params.y_count) < 4
            /\ IMax(params.x_count, params.y_count) > 6
    THEN [mesh_config |-> params, raised |-> "bicubic_probe_count"]
    ELSE [mesh_config |-> params, raised |-> "none"]

\* _verify_algorithm(error): [mesh_config, raised]
verify_algorithm(params) ==
    With(<<IMax(params.x_count, params.y_count), IMin(params.x_count, params.y_count)>>,
         LAMBDA c :
           \* c = <<max_probe_cnt, min_probe_cnt>>
           IF params.algo \notin ALGOS
           THEN [mesh_config |-> params, raised |-> "unknown_algorithm"]
           ELSE IF IMax(params.mesh_x_pps, params.mesh_y_pps) = 0
           THEN [mesh_config |-> [params EXCEPT !.algo = "direct"], raised |-> "none"]
           ELSE IF params.algo = "lagrange" /\ c[1] > 6
           THEN [mesh_config |-> params, raised |-> "lagrange_probe_count"]
           ELSE IF params.algo = "bicubic" /\ c[2] < 4
           THEN (IF c[1] > 6
                 THEN [mesh_config |-> params, raised |-> "bicubic_probe_count"]
                 ELSE [mesh_config |-> [params EXCEPT !.algo = "lagrange"],
                       raised |-> "none"])
           ELSE [mesh_config |-> params, raised |-> "none"])

\* _init_mesh_config(config) up to the call of _verify_algorithm: the
\* attributes of a new BedMeshCalibrate
init_mesh_config(config) ==
    With(IF config.mesh_radius.given
         THEN [radius |-> Given(floor_to(config.mesh_radius.val, 10)),
               origin |-> config.mesh_origin,
               x_cnt |-> config.round_probe_count,
               y_cnt |-> config.round_probe_count,
               mesh_min |-> <<RNeg(floor_to(config.mesh_radius.val, 10)),
                              RNeg(floor_to(config.mesh_radius.val, 10))>>,
               mesh_max |-> <<floor_to(config.mesh_radius.val, 10),
                              floor_to(config.mesh_radius.val, 10)>>]
         ELSE [radius |-> NoValue,
               origin |-> <<Zero, Zero>>,
               x_cnt |-> config.probe_count[1],
               y_cnt |-> config.probe_count[2],
               mesh_min |-> config.mesh_min,
               mesh_max |-> config.mesh_max],
         LAMBDA m :
           [orig_config |->
               [radius |-> m.radius, origin |-> m.origin,
                x_count |-> m.x_cnt, y_count |-> m.y_cnt,
                mesh_min |-> m.mesh_min, mesh_max |-> m.mesh_max,
                mesh_x_pps |-> config.mesh_pps[1], mesh_y_pps |-> config.mesh_pps[2],
                algo |-> config.algorithm, tension |-> config.bicubic_tension],
            radius |-> m.radius,
            origin |-> m.origin,
            mesh_min |-> m.mesh_min,
            mesh_max |-> m.mesh_max,
            mesh_config |->
               [x_count |-> m.x_cnt, y_count |-> m.y_cnt,
                mesh_x_pps |-> config.mesh_pps[1], mesh_y_pps |-> config.mesh_pps[2],
                algo |-> config.algorithm, tension |-> config.bicubic_tension],
            profile_name |-> "default"])

\* the configuration errors of _init_mesh_config
init_mesh_config_raises(config) ==
    IF config.mesh_radius.given
    THEN config.round_probe_count % 2 = 0 \/ config.round_probe_count < 3
    ELSE \/ config.probe_count[1] < 3 \/ config.probe_count[2] < 3
         \/ RLe(config.mesh_max[1], config.mesh_min[1])
         \/ RLe(config.mesh_max[2], config.mesh_min[2])

\* update_config: the reset to the original configuration
reset_config(bmc) ==
    [bmc EXCEPT !.radius = bmc.orig_config.radius,
                !.origin = bmc.orig_config.origin,
                !.mesh_min = bmc.orig_config.mesh_min,
                !.mesh_max = bmc.orig_config.mesh_max,
                !.mesh_config = [k \in DOMAIN bmc.mesh_config |-> bmc.orig_config[k]]]

\* update_config: the parameters a round bed reads and those a rectangular
\* bed reads, then MESH_PPS and ALGORITHM (the parameters given are well
\* formed and not below their minimum)
apply_params(bmc, gcmd) ==
    With(IF bmc.radius.given
         THEN [bmc EXCEPT
                 !.radius = IF gcmd.MESH_RADIUS.given
                            THEN Given(floor_to(gcmd.MESH_RADIUS.val, 10)) ELSE @,
                 !.mesh_min = IF gcmd.MESH_RADIUS.given
                              THEN <<RNeg(floor_to(gcmd.MESH_RADIUS.val, 10)),
                                     RNeg(floor_to(gcmd.MESH_RADIUS.val, 10))>>
                              ELSE @,
                 !.mesh_max = IF gcmd.MESH_RADIUS.given
                              THEN <<floor_to(gcmd.MESH_RADIUS.val, 10),
                                     floor_to(gcmd.MESH_RADIUS.val, 10)>>
                              ELSE @,
                 !.origin = IF gcmd.MESH_ORIGIN.given THEN gcmd.MESH_ORIGIN.val ELSE @,
                 !.mesh_config.x_count = IF gcmd.ROUND_PROBE_COUNT.given
                                         THEN gcmd.ROUND_PROBE_COUNT.val ELSE @,
                 !.mesh_config.y_count = IF gcmd.ROUND_PROBE_COUNT.given
                                         THEN gcmd.ROUND_PROBE_COUNT.val ELSE @]
         ELSE [bmc EXCEPT
                 !.mesh_min = IF gcmd.MESH_MIN.given THEN gcmd.MESH_MIN.val ELSE @,
                 !.mesh_max = IF gcmd.MESH_MAX.given THEN gcmd.MESH_MAX.val ELSE @,
                 !.mesh_config.x_count = IF gcmd.PROBE_COUNT.given
                                         THEN gcmd.PROBE_COUNT.val[1] ELSE @,
                 !.mesh_config.y_count = IF gcmd.PROBE_COUNT.given
                                         THEN gcmd.PROBE_COUNT.val[2] ELSE @],
         LAMBDA b :
           [b EXCEPT
              !.mesh_config.mesh_x_pps = IF gcmd.MESH_PPS.given
                                         THEN gcmd.MESH_PPS.val[1] ELSE @,
              !.mesh_config.mesh_y_pps = IF gcmd.MESH_PPS.given
                                         THEN gcmd.MESH_PPS.val[2] ELSE @,
              !.mesh_config.algo = IF gcmd.ALGORITHM.given THEN gcmd.ALGORITHM.val ELSE @])

\* need_cfg_update at the end of update_config (ADAPTIVE is not given, so
\* set_adaptive_mesh returns False)
need_cfg_update(bmc, gcmd) ==
    \/ bmc.radius.given
         /\ (gcmd.MESH_RADIUS.given \/ gcmd.MESH_ORIGIN.given \/ gcmd.ROUND_PROBE_COUNT.given)
    \/ ~bmc.radius.given
         /\ (gcmd.MESH_MIN.given \/ gcmd.MESH_MAX.given \/ gcmd.PROBE_COUNT.given)
    \/ gcmd.MESH_PPS.given
    \/ gcmd.ALGORITHM.given

\* update_config(gcmd): [o, raised]
update_config(o, gcmd) ==
    With(apply_params(reset_config(o.bmc), gcmd),
         LAMBDA b :
           With(IF need_cfg_update(b, gcmd) THEN verify_algorithm(b.mesh_config)
                ELSE [mesh_config |-> b.mesh_config, raised |-> "none"],
                LAMBDA v :
                  IF v.raised # "none"
                  THEN [o |-> [o EXCEPT !.bmc = b], raised |-> v.raised]
                  ELSE With(generate_points(o.probe_mgr, b.orig_config, v.mesh_config,
                                            b.mesh_min, b.mesh_max, b.radius, b.origin,
                                            gcmd.METHOD),
                            LAMBDA g :
                              [o |-> [o EXCEPT !.bmc = [b EXCEPT !.mesh_config = v.mesh_config],
                                               !.probe_mgr = g.probe_mgr],
                               raised |-> g.raised])))

\* a profile name that is empty once stripped
blank(name) == name \in {"", " "}

\* BED_MESH_CALIBRATE that validates before it clears the active mesh
cmd_BED_MESH_CALIBRATE_validate_first(o, gcmd) ==
    IF blank(gcmd.PROFILE)
    THEN [o |-> [o EXCEPT !.bmc.profile_name = gcmd.PROFILE], raised |-> "profile"]
    ELSE With(update_config([o EXCEPT !.bmc.profile_name = gcmd.PROFILE], gcmd),
              LAMBDA r :
                IF r.raised # "none" THEN r
                ELSE [o |-> [set_mesh(r.o, NoMesh).o EXCEPT
                                !.probe_mgr = start_probe(@)],
                      raised |-> "none"])

\* cmd_BED_MESH_CALIBRATE(gcmd): [o, raised]
cmd_BED_MESH_CALIBRATE(o, gcmd) ==
    IF blank(gcmd.PROFILE)
    THEN [o |-> [o EXCEPT !.bmc.profile_name = gcmd.PROFILE], raised |-> "profile"]
    ELSE With(update_config(set_mesh([o EXCEPT !.bmc.profile_name = gcmd.PROFILE],
                                     NoMesh).o,
                            gcmd),
              LAMBDA r :
                IF r.raised # "none" THEN r
                ELSE [o |-> [r.o EXCEPT !.probe_mgr = start_probe(@)],
                      raised |-> "none"])

\* positions[a:b] of a sequence, with Python's clipping
Slice(seq, a, b) == SubSeq(seq, a + 1, IMin(b, Len(seq)))

\* sum([p[2] for p in pts])
RECURSIVE sum_z(_)
sum_z(pts) == IF pts = <<>> THEN Zero ELSE RAdd(pts[1][3], sum_z(Tail(pts)))

\* the loop over substitutes.items() that gives a substituted point the
\* height probed at its first substitute
RECURSIVE corrected_from_first_sample(_, _, _, _, _, _, _)
corrected_from_first_sample(pm, offsets, positions, keys, k, idx_offset, start_idx) ==
    IF k > Len(keys) THEN Slice(positions, start_idx, Len(positions))
    ELSE With(<<keys[k] + idx_offset, ListLen(pm.substitutes[keys[k]])>>,
              LAMBDA a :
                Slice(positions, start_idx, a[1])
                \o <<(<<RSub(pm.base_points[keys[k]][1], offsets[1]),
                        RSub(pm.base_points[keys[k]][2], offsets[2]),
                        positions[a[1] + 1][3]>>)>>
                \o corrected_from_first_sample(pm, offsets, positions, keys, k + 1,
                                               idx_offset + a[2] - 1, a[1] + a[2]))

\* probe_finalize: the loop over substitutes.items(), from the k-th
\* substituted index on (keys in insertion order, which is ascending);
\* returns corrected_pts with positions[start_idx:] at its end
RECURSIVE corrected_from(_, _, _, _, _, _, _)
corrected_from(pm, offsets, positions, keys, k, idx_offset, start_idx) ==
    IF k > Len(keys) THEN Slice(positions, start_idx, Len(positions))
    ELSE With(<<keys[k] + idx_offset, ListLen(pm.substitutes[keys[k]])>>,
              LAMBDA a :
                \* a = <<idx, len(pts)>>
                Slice(positions, start_idx, a[1])
                \o <<(<<RSub(pm.base_points[keys[k]][1], offsets[1]),
                        RSub(pm.base_points[keys[k]][2], offsets[2]),
                        RDiv(sum_z(Slice(positions, a[1], a[1] + a[2])), R(a[2]))>>)>>
                \o corrected_from(pm, offsets, positions, keys, k + 1,
                                  idx_offset + a[2] - 1, a[1] + a[2]))

\* the loop over zip(base_points, positions) that appends every height to
\* its row, whatever the direction the row was probed in
RECURSIVE assemble_appending(_, _, _, _, _, _, _)
assemble_appending(base_points, positions, z_offset, n, k, matrix, row) ==
    IF k >= n THEN Append(matrix, row)
    ELSE With(<<IF k = 0 THEN base_points[0] ELSE base_points[k - 1],
                base_points[k],
                RSub(positions[k + 1][3], z_offset)>>,
              LAMBDA a :
                With(IF ~isclose(a[2][2], a[1][2], <<1, 10>>)
                     THEN <<Append(matrix, row), <<>>>> ELSE <<matrix, row>>,
                     LAMBDA m :
                       assemble_appending(base_points, positions, z_offset, n, k + 1,
                                          m[1], Append(m[2], a[3]))))

\* the loop over zip(base_points, positions) that puts every height at the
\* front of its row, whatever the direction the row was probed in
RECURSIVE assemble_inserting(_, _, _, _, _, _, _)
assemble_inserting(base_points, positions, z_offset, n, k, matrix, row) ==
    IF k >= n THEN Append(matrix, row)
    ELSE With(<<IF k = 0 THEN base_points[0] ELSE base_points[k - 1],
                base_points[k],
                RSub(positions[k + 1][3], z_offset)>>,
              LAMBDA a :
                With(IF ~isclose(a[2][2], a[1][2], <<1, 10>>)
                     THEN <<Append(matrix, row), <<>>>> ELSE <<matrix, row>>,
                     LAMBDA m :
                       assemble_inserting(base_points, positions, z_offset, n, k + 1,
                                          m[1], <<a[3]>> \o m[2])))

\* probe_finalize: the rows assembled from zip(base_points, positions), from
\* pair k on; matrix holds the finished rows and row the one in the making
RECURSIVE assemble(_, _, _, _, _, _, _)
assemble(base_points, positions, z_offset, n, k, matrix, row) ==
    IF k >= n THEN Append(matrix, row)
    ELSE With(<<IF k = 0 THEN base_points[0] ELSE base_points[k - 1],
                base_points[k],
                RSub(positions[k + 1][3], z_offset)>>,
              LAMBDA a :
                \* a = <<prev_pos, pos, z_pos>>
                With(IF ~isclose(a[2][2], a[1][2], <<1, 10>>)
                     THEN <<Append(matrix, row), <<>>>> ELSE <<matrix, row>>,
                     LAMBDA m :
                       assemble(base_points, positions, z_offset, n, k + 1, m[1],
                                IF RLt(a[1][1], a[2][1]) THEN Append(m[2], a[3])
                                ELSE <<a[3]>> \o m[2])))

\* a length validation that never fails
position_count_mismatch_never(base_points, positions) == FALSE

\* len(base_points) != len(positions)
position_count_mismatch(base_points, positions) ==
    ListLen(base_points) # Len(positions)

\* probe_finalize on a round bed: a row padded on both sides with its end
\* values up to x_cnt
extend_row(row, x_cnt) ==
    With((x_cnt - Len(row)) \div 2,
         LAMBDA buf_cnt :
           IF buf_cnt <= 0 THEN row
           ELSE [i \in 1 .. buf_cnt |-> row[1]] \o row
                \o [i \in 1 .. buf_cnt |-> row[Len(row)]])

\* the mesh parameters of probe_finalize: mesh_config and the extent of the
\* base points
finalize_params(mesh_config, base_points) ==
    With(<<[i \in DOMAIN base_points |-> base_points[i][1]],
           [i \in DOMAIN base_points |-> base_points[i][2]],
           ListLen(base_points) - 1>>,
         LAMBDA c :
           [x_count |-> mesh_config.x_count, y_count |-> mesh_config.y_count,
            mesh_x_pps |-> mesh_config.mesh_x_pps, mesh_y_pps |-> mesh_config.mesh_y_pps,
            algo |-> mesh_config.algo, tension |-> mesh_config.tension,
            min_x |-> RMinOf(c[1], 0, c[3]), max_x |-> RMaxOf(c[1], 0, c[3]),
            min_y |-> RMinOf(c[2], 0, c[3]), max_y |-> RMaxOf(c[2], 0, c[3])])

\* self._sample is None: the algorithm is none of the three ZMesh knows, and
\* build_mesh fails calling it
sample_missing(p) == p.algo \notin {"lagrange", "bicubic", "direct"}

\* what probe_finalize returns to the model: the objects, the error raised,
\* the mesh handed to set_mesh (if it was called), and the counts and row
\* lengths the validations looked at
Finalized(o, raised, offered, set_mesh_called, n_results, rows) ==
    [o |-> o, raised |-> raised, offered |-> offered,
     set_mesh_called |-> set_mesh_called,
     n_points |-> ListLen(o.probe_mgr.base_points), n_results |-> n_results,
     rows |-> rows]

\* the end of probe_finalize: ZMesh, build_mesh, set_zero_reference,
\* set_mesh and save_profile
finalize_mesh(o, n_results, rows) ==
    With(finalize_params(o.bmc.mesh_config, o.probe_mgr.base_points),
         LAMBDA params :
           IF sample_missing(params)
           THEN Finalized(o, "type_error", NoMesh, FALSE, n_results, rows)
           ELSE IF build_mesh_raises(params)
           THEN Finalized(o, "build_mesh", NoMesh, FALSE, n_results, rows)
           ELSE With(build_mesh(params, o.bmc.profile_name,
                                [j \in 0 .. Len(rows) - 1 |-> ToList(rows[j + 1])]),
                     LAMBDA built :
                       With(IF o.probe_mgr.zref_mode = "IN_MESH"
                            THEN set_zero_reference(built, o.probe_mgr.zero_ref_pos.val[1],
                                                    o.probe_mgr.zero_ref_pos.val[2])
                            ELSE built,
                            LAMBDA z_mesh :
                              With(set_mesh(o, z_mesh),
                                   LAMBDA r :
                                     Finalized(IF r.raised = "none"
                                               THEN save_profile(r.o, o.bmc.profile_name)
                                               ELSE r.o,
                                               r.raised, z_mesh, TRUE, n_results, rows)))))

\* the validations of probe_finalize on the assembled matrix: y length, odd
\* rows on a round bed (padded to x_cnt), x length
finalize_matrix(o, n_results, matrix) ==
    IF Len(matrix) # o.bmc.mesh_config.y_count
    THEN Finalized(o, "y_length", NoMesh, FALSE, n_results, matrix)
    ELSE IF o.bmc.radius.given /\ \E j \in 1 .. Len(matrix) : Len(matrix[j]) % 2 = 0
    THEN Finalized(o, "even_row", NoMesh, FALSE, n_results, matrix)
    ELSE With(IF o.bmc.radius.given
              THEN [j \in 1 .. Len(matrix) |->
                       extend_row(matrix[j], o.bmc.mesh_config.x_count)]
              ELSE matrix,
              LAMBDA rows :
                IF \E j \in 1 .. Len(rows) : Len(rows[j]) # o.bmc.mesh_config.x_count
                THEN Finalized(o, "x_length", NoMesh, FALSE, n_results, rows)
                ELSE finalize_mesh(o, n_results, rows))

\* probe_finalize: the positions rounded, without the probed reference, and
\* the z_offset: <<positions, z_offset>>
probed_positions(pm, offsets, positions) ==
    With(ToSeq([i \in DOMAIN positions |->
                  <<round2(positions[i][1]), round2(positions[i][2]), positions[i][3]>>]),
         LAMBDA rounded :
           IF pm.zref_mode = "PROBE"
           THEN <<SubSeq(rounded, 1, Len(rounded) - 1), rounded[Len(rounded)][3]>>
           ELSE <<rounded, offsets[3]>>)

\* probe_finalize: the positions after the substituted points were replaced
corrected_pts(pm, offsets, positions) ==
    IF DOMAIN pm.substitutes # {}
    THEN corrected_from(pm, offsets, positions, sorted_keys(DOMAIN pm.substitutes),
                        1, 0, 0)
    ELSE positions

\* probe_finalize: probed_matrix as the loop over zip(base_points, positions)
\* leaves it
probed_rows(pm, corrected, z_offset) ==
    assemble(pm.base_points, corrected, z_offset,
             IMin(ListLen(pm.base_points), Len(corrected)), 0, <<>>, <<>>)

\* probe_finalize(offsets, positions): offsets is the probe's (x, y, z)
\* offset, positions the list of probed <<x, y, z>>
probe_finalize(o, offsets, positions) ==
    With(probed_positions(o.probe_mgr, offsets, positions),
         LAMBDA pz :
           \* pz = <<positions, z_offset>>
           With(corrected_pts(o.probe_mgr, offsets, pz[1]),
                LAMBDA corrected :
                  IF position_count_mismatch(o.probe_mgr.base_points, corrected)
                  THEN Finalized(o, "list_size", NoMesh, FALSE, Len(corrected), <<>>)
                  ELSE finalize_matrix(o, Len(corrected),
                                       probed_rows(o.probe_mgr, corrected, pz[2]))))

(***************************************************************************)
(* Inputs                                                                  *)
(***************************************************************************)
\* largest points-per-segment value tried on an axis
MaxPps == 2
\* most set_zero_reference calls made on one mesh
MaxZeroRefCalls == 2

\* (x_count, y_count) pairs; 3 is the smallest count the configuration takes
CountPairs == {<<3, 3>>, <<4, 3>>, <<3, 4>>}
PpsPairs == {<<1, 1>>, <<MaxPps, 1>>, <<1, MaxPps>>}
Tensions == {<<1, 5>>}

\* sample grids: z[j][i] = (a + b*i + c*j + d*((i*j) % 3)) / 10
ShapeCoefs == {<<0, 0, 0, 0>>, <<1, 0, 0, 0>>, <<0, 1, 0, 0>>, <<1, 0, -1, 0>>,
               <<0, 1, -1, 2>>, <<1, 1, 0, 2>>}
shape_matrix(k, x_cnt, y_cnt) ==
    [j \in 0 .. y_cnt - 1 |->
        [i \in 0 .. x_cnt - 1 |->
            Rat(k[1] + k[2] * i + k[3] * j + k[4] * ((i * j) % 3), 10)]]

\* mesh parameters over the bed (0,0)-(20,30)
MeshParamSet ==
    {[min_x |-> Zero, max_x |-> R(20), min_y |-> Zero, max_y |-> R(30),
      x_count |-> c[1], y_count |-> c[2],
      mesh_x_pps |-> pp[1], mesh_y_pps |-> pp[2],
      algo |-> al, tension |-> tn] :
        c \in CountPairs, pp \in PpsPairs \cup {<<0, 0>>},
        al \in {"lagrange", "bicubic", "direct"}, tn \in Tensions}

\* what _verify_algorithm lets through, plus lagrange without interpolation
\* (a calibration that skips _verify_algorithm builds it)
ZMeshParams ==
    {p \in MeshParamSet :
        \/ p.algo = "direct" /\ p.mesh_x_pps = 0 /\ p.mesh_y_pps = 0
        \/ p.algo = "lagrange"
        \/ p.algo = "bicubic" /\ (p.mesh_x_pps > 0 \/ p.mesh_y_pps > 0)}

\* reference and lookup points: nodes, points inside cells, points off the mesh
RefPoints == {<<R(10), R(15)>>, <<<<13, 2>>, R(21)>>, <<R(20), R(30)>>,
              <<R(25), R(-3)>>}
OffsetChoices == {[given |-> FALSE, val |-> Zero], [given |-> TRUE, val |-> R(3)]}
\* points looked up with calc_z: the reference points, a corner node, a point
\* inside the last cell, points off the mesh on the low X and the high Y side
LookupPoints == RefPoints \cup {<<Zero, Zero>>, <<R(18), R(28)>>, <<R(-7), R(15)>>,
                                <<R(10), R(40)>>}

(***************************************************************************)
(* State                                                                   *)
(***************************************************************************)
VARIABLES
    zm,         \* ZMesh spec: the ZMesh object under test (NoMesh before build)
    zhist       \* ZMesh spec: what was done to it: the z_matrix given to
                \* build_mesh, the mesh as built, the
                \* reference points given to set_zero_reference in call order,
                \* whether set_mesh_offsets ran

VARIABLES
    sp,         \* MoveSplitter spec: the MoveSplitter object
    shist       \* MoveSplitter spec: the calls made since build_move: the
                \* offset build_move started from, what each split() returned

VARIABLES
    bedmesh,    \* printer spec: the BedMesh object
    bmc,        \* printer spec: its BedMeshCalibrate
    probe_mgr,  \* printer spec: the ProbeManager of bmc
    pmgr,       \* printer spec: the ProfileManager
    hist        \* printer spec: the last command or callback and its outcome

VARIABLES
    toolhead,       \* moves spec: the position the toolhead was last sent to
    last_position,  \* moves spec: BedMesh.last_position
    mhist           \* moves spec: the last call made and what it returned

zvars == <<zm, zhist>>
svars == <<sp, shist>>
pvars == <<bedmesh, bmc, probe_mgr, pmgr, hist>>
mvars == <<toolhead, last_position, mhist>>
vars == <<zm, zhist, sp, shist, bedmesh, bmc, probe_mgr, pmgr, hist,
          toolhead, last_position, mhist>>

\* the values the variables of the other classes hold while one class is
\* exercised on its own
NoLookup == [done |-> FALSE, pt |-> <<Zero, Zero>>, z |-> Zero]
NoZHist == [z_matrix |-> <<>>, built |-> NoMesh, refs |-> <<>>, offsets_set |-> FALSE,
            lookup |-> NoLookup]
NoSplitter == new_splitter(Zero, Zero, NoMesh, Zero)
NoSplitHist == [start_offset |-> Zero, emitted |-> <<>>, last_call |-> "none",
                last_ret |-> Ret("none", NoPos), extra |-> 0]
NoPrinter == [none |-> TRUE]
NoHist == [op |-> "init", raised |-> "none", offered |-> NoMesh,
           set_mesh_called |-> FALSE, had_mesh |-> FALSE,
           n_points |-> 0, n_results |-> 0, rows |-> <<>>, steps |-> 0]
IdlePrinter ==
    /\ bedmesh = NoPrinter
    /\ bmc = NoPrinter
    /\ probe_mgr = NoPrinter
    /\ pmgr = NoPrinter
    /\ hist = NoHist
NoMoveHist == [op |-> "init", raised |-> "none", after_move |-> FALSE, sent |-> FALSE,
               newpos |-> NoPos, ret |-> NoPos, z |-> Zero, factor |-> Zero,
               split_used |-> FALSE, calls |-> 0, steps |-> 0]
\* BedMesh.__init__ leaves last_position at [0, 0, 0, 0]; the toolhead starts
\* there
IdleMove ==
    /\ toolhead = NoPos
    /\ last_position = NoPos
    /\ mhist = NoMoveHist

(***************************************************************************)
(* ZMesh on its own: build_mesh, set_zero_reference, set_mesh_offsets      *)
(***************************************************************************)
ZInit ==
    /\ zm = NoMesh
    /\ zhist = NoZHist
    /\ sp = NoSplitter
    /\ shist = NoSplitHist
    /\ IdlePrinter
    /\ IdleMove

\* z_mesh = ZMesh(params, name); z_mesh.build_mesh(z_matrix)
ZBuildMesh ==
    /\ zm = NoMesh
    /\ \E p \in ZMeshParams, k \in ShapeCoefs :
         /\ ~build_mesh_raises(p)
         /\ zm' = build_mesh(p, "default", shape_matrix(k, p.x_count, p.y_count))
         /\ zhist' = [zhist EXCEPT
                        !.z_matrix = shape_matrix(k, p.x_count, p.y_count),
                        !.built = zm']
         /\ UNCHANGED <<svars, pvars, mvars>>

\* z_mesh = ZMesh(params, name), with no build_mesh
ZConstruct ==
    /\ zm = NoMesh
    /\ \E p \in ZMeshParams :
         /\ zm' = new_z_mesh(p, "default")
         /\ UNCHANGED <<zhist, svars, pvars, mvars>>

\* z_mesh.calc_z(x, y), on the mesh as built or after set_mesh_offsets
ZCalcZ ==
    /\ zm # NoMesh
    /\ zhist.refs = <<>>
    /\ \E pt \in LookupPoints :
         /\ zhist' = [zhist EXCEPT
                        !.lookup = [done |-> TRUE, pt |-> pt,
                                    z |-> calc_z(zm, pt[1], pt[2])]]
         /\ UNCHANGED <<zm, svars, pvars, mvars>>

\* z_mesh.set_zero_reference(x, y)
ZSetZeroReference ==
    /\ has_matrix(zm)
    /\ Len(zhist.refs) < MaxZeroRefCalls
    /\ \E pt \in RefPoints :
         /\ zm' = set_zero_reference(zm, pt[1], pt[2])
         /\ zhist' = [zhist EXCEPT !.refs = Append(@, pt), !.lookup = NoLookup]
         /\ UNCHANGED <<svars, pvars, mvars>>

\* z_mesh.set_mesh_offsets(offsets)
ZSetMeshOffsets ==
    /\ zm # NoMesh
    /\ \E ox \in OffsetChoices, oy \in OffsetChoices :
         /\ zm' = set_mesh_offsets(zm, <<ox, oy>>)
         /\ zhist' = [zhist EXCEPT !.offsets_set = TRUE, !.lookup = NoLookup]
         /\ UNCHANGED <<svars, pvars, mvars>>

ZNext == ZBuildMesh \/ ZConstruct \/ ZCalcZ \/ ZSetZeroReference \/ ZSetMeshOffsets

SpecZMesh == ZInit /\ [][ZNext]_vars

(***************************************************************************)
(* MoveSplitter on its own: build_move and split                           *)
(***************************************************************************)
\* most split() calls made after the traverse is complete
MaxExtraSplits == 2

\* the maps the splitter is initialized with: a plane tilted along X looked
\* up directly, and a warped surface interpolated by lagrange
SplitMeshes ==
    {build_mesh(p, "default", shape_matrix(k, 3, 3)) :
        p \in {q \in ZMeshParams : q.x_count = 3 /\ q.y_count = 3},
        k \in {<<0, 1, 0, 0>>, <<0, 1, -1, 2>>}}

SplitMeshChoices ==
    {m \in SplitMeshes :
        \/ m.mesh_params.algo = "direct"
        \/ m.mesh_params.algo = "lagrange" /\ m.mesh_params.mesh_x_pps = 1
             /\ m.mesh_params.mesh_y_pps = 1 /\ m.probed_matrix[1][1] = <<1, 5>>}

\* split_delta_z (default 0.025) and move_check_distance (default 5, least 3)
SplitDeltas == {<<1, 40>>, <<1, 10>>}
CheckDistances == {R(5), R(3)}
FadeOffsets == {Zero, <<1, 10>>}
Factors == {One, <<1, 2>>}

\* a position with integer coordinates
Pos(x, y, z, e) == <<R(x), R(y), R(z), R(e)>>

\* the moves made, as <<prev_pos, next_pos>>: along X both ways, along Y,
\* diagonal, leaving the mesh, shorter than move_check_distance, as long as
\* it, Z only, X with Z, extruder only, and no move at all; each has an
\* integer length
Moves ==
    {<<Pos(0, 0, 0, 0), Pos(20, 0, 0, 1)>>,
     <<Pos(20, 0, 0, 0), Pos(0, 0, 0, 1)>>,
     <<Pos(3, 0, 4, 0), Pos(3, 30, 4, 0)>>,
     <<Pos(0, 0, 0, 0), Pos(12, 16, 0, 1)>>,
     <<Pos(12, 25, 4, 0), Pos(0, 9, 4, 1)>>,
     <<Pos(20, 9, 0, 0), Pos(32, 0, 0, 0)>>,
     <<Pos(0, 0, 0, 0), Pos(2, 0, 0, 1)>>,
     <<Pos(12, 16, 0, 0), Pos(9, 16, 0, 0)>>,
     <<Pos(5, 5, 0, 0), Pos(10, 5, 0, 1)>>,
     <<Pos(12, 16, 0, 0), Pos(12, 16, 4, 0)>>,
     <<Pos(0, 9, 0, 0), Pos(3, 9, 4, 1)>>,
     <<Pos(12, 9, 4, 0), Pos(0, 0, 24, 1)>>,
     <<Pos(3, 9, 0, 0), Pos(3, 9, 0, 1)>>,
     <<Pos(20, 16, 4, 0), Pos(20, 16, 4, 0)>>}

SInit ==
    /\ zm = NoMesh
    /\ zhist = NoZHist
    /\ \E delta \in SplitDeltas, dist \in CheckDistances, m \in SplitMeshChoices,
          fo \in FadeOffsets :
         sp = new_splitter(delta, dist, m, fo)
    /\ shist = NoSplitHist
    /\ IdlePrinter
    /\ IdleMove

\* splitter.build_move(prev_pos, next_pos, factor)
SBuildMove ==
    /\ \E mv \in Moves, factor \in Factors :
         /\ move_length(mv[1], mv[2])[1] >= 0
         /\ sp' = build_move(sp, mv[1], mv[2], factor)
         /\ shist' = [start_offset |-> sp'.z_offset, emitted |-> <<>>,
                      last_call |-> "build_move", last_ret |-> Ret("none", NoPos),
                      extra |-> 0]
    /\ UNCHANGED <<zvars, pvars, mvars>>

\* splitter.split()
SSplit ==
    /\ sp.built
    /\ shist.last_ret.kind # "error"
    /\ sp.traverse_complete => shist.extra < MaxExtraSplits
    /\ LET r == split(sp)
       IN  /\ sp' = r.s
           /\ shist' = [shist EXCEPT
                  !.emitted = IF r.ret.kind = "move"
                              THEN Append(@, [pos |-> r.ret.pos,
                                              z_offset |-> r.s.z_offset,
                                              final |-> r.s.traverse_complete])
                              ELSE @,
                  !.last_call = "split",
                  !.last_ret = r.ret,
                  !.extra = IF sp.traverse_complete THEN @ + 1 ELSE @]
    /\ UNCHANGED <<zvars, pvars, mvars>>

SNext == SBuildMove \/ SSplit

SpecSplit == SInit /\ [][SNext]_vars

(***************************************************************************)
(* The printer: BedMesh with its BedMeshCalibrate, ProbeManager and        *)
(* ProfileManager, driven by BED_MESH_CLEAR, BED_MESH_PROFILE LOAD,        *)
(* BED_MESH_CALIBRATE and the probe helper's call of probe_finalize.       *)
(* A manual probing session stays open across commands, so commands can    *)
(* come between BED_MESH_CALIBRATE and probe_finalize.                     *)
(***************************************************************************)
\* most commands and callbacks in one run
MaxCommands == 3

\* a 3x3 map over (0,0)-(20,30) looked up directly
StoredParams ==
    [min_x |-> Zero, max_x |-> R(20), min_y |-> Zero, max_y |-> R(30),
     x_count |-> 3, y_count |-> 3, mesh_x_pps |-> 0, mesh_y_pps |-> 0,
     algo |-> "direct", tension |-> <<1, 5>>]

\* the profiles stored in the configuration file: one within 0 .. 0.2 and
\* one within 0 .. 1.2
StoredProfiles ==
    [n \in {"flat", "steep"} |->
        [points |-> shape_matrix(IF n = "flat" THEN <<0, 1, 0, 0>> ELSE <<0, 6, 0, 0>>,
                                 3, 3),
         mesh_params |-> StoredParams]]

\* the [bed_mesh] section with the defaults of the options it leaves out
BaseConfig ==
    [fade_start |-> One, fade_end |-> Zero, fade_target |-> NoValue,
     split_delta_z |-> <<1, 40>>, move_check_distance |-> R(5),
     mesh_radius |-> NoValue, mesh_origin |-> <<Zero, Zero>>, round_probe_count |-> 5,
     probe_count |-> <<3, 3>>, mesh_min |-> <<Zero, Zero>>, mesh_max |-> <<R(20), R(30)>>,
     mesh_pps |-> <<1, 1>>, algorithm |-> "lagrange", bicubic_tension |-> <<1, 5>>,
     zero_reference_position |-> NoPoint, faulty_regions |-> <<>>,
     scan_overshoot |-> Zero, profiles |-> StoredProfiles]

\* the configurations: fading off; fading over 1mm with a reference point in
\* the mesh and a faulty region around the centre; fading over 10mm towards
\* 0.5 on a bicubic 4x4 mesh; fade_end at the value of FADE_DISABLE, with a
\* reference point off the mesh and no interpolation; a round bed fading over
\* 1mm towards 0
Configs ==
    {BaseConfig,
     [BaseConfig EXCEPT
        !.fade_end = R(2),
        !.zero_reference_position = Given(<<R(10), R(15)>>),
        !.faulty_regions = [i \in {0} |-> <<<<R(12), R(17)>>, <<R(8), R(13)>>>>]],
     [BaseConfig EXCEPT
        !.fade_end = R(11), !.fade_target = Given(<<1, 2>>),
        !.probe_count = <<4, 4>>, !.algorithm = "bicubic"],
     [BaseConfig EXCEPT
        !.fade_start = R(FADE_DISABLE - 1), !.fade_end = R(FADE_DISABLE),
        !.zero_reference_position = Given(<<R(25), R(-3)>>),
        !.mesh_pps = <<0, 0>>],
     [BaseConfig EXCEPT
        !.fade_end = R(2), !.fade_target = Given(Zero),
        !.mesh_radius = Given(R(10)), !.round_probe_count = 3]}

\* the objects after construction: BedMesh.__init__ builds BedMeshCalibrate
\* (whose __init__ verifies the algorithm and generates the points), then
\* the splitter and ProfileManager, and ends with update_status
construct(config) ==
    With(<<init_mesh_config(config), new_probe_manager(config)>>,
         LAMBDA c :
           With(<<verify_algorithm(c[1].mesh_config), new_profile_manager(config)>>,
                LAMBDA v :
                  With(generate_points(c[2], c[1].orig_config, v[1].mesh_config,
                                       c[1].mesh_min, c[1].mesh_max, c[1].radius,
                                       c[1].origin, "automatic"),
                       LAMBDA g :
                         [o |-> [bedmesh |-> update_status(new_bed_mesh(config),
                                                           v[2].profiles),
                                 bmc |-> [c[1] EXCEPT !.mesh_config = v[1].mesh_config],
                                 probe_mgr |-> g.probe_mgr,
                                 pmgr |-> v[2]],
                          raised |-> IF init_mesh_config_raises(config) THEN "config"
                                     ELSE IF faulty_regions_overlap(c[2].faulty_regions)
                                     THEN "config"
                                     ELSE IF v[1].raised # "none" THEN v[1].raised
                                     ELSE g.raised])))

\* a BED_MESH_CALIBRATE command without parameters
NoParams ==
    [PROFILE |-> "default", METHOD |-> "automatic",
     MESH_MIN |-> NoPoint, MESH_MAX |-> NoPoint, PROBE_COUNT |-> NoPair,
     MESH_PPS |-> NoPair, ALGORITHM |-> NoName,
     MESH_RADIUS |-> NoValue, MESH_ORIGIN |-> NoPoint, ROUND_PROBE_COUNT |-> NoCount]

\* the BED_MESH_CALIBRATE commands given
Gcmds ==
    {NoParams,
     [NoParams EXCEPT !.PROFILE = " "],
     [NoParams EXCEPT !.METHOD = "manual"],
     [NoParams EXCEPT !.PROBE_COUNT = Given(<<4, 3>>)],
     [NoParams EXCEPT !.PROBE_COUNT = Given(<<7, 3>>)],
     [NoParams EXCEPT !.PROBE_COUNT = Given(<<3, 4>>), !.MESH_MAX = Given(<<R(1), R(1)>>)],
     [NoParams EXCEPT !.MESH_MIN = Given(<<R(9), R(14)>>),
                      !.MESH_MAX = Given(<<R(11), R(16)>>)],
     [NoParams EXCEPT !.MESH_MIN = Given(<<R(14), Zero>>)],
     [NoParams EXCEPT !.MESH_PPS = Given(<<0, 0>>)],
     [NoParams EXCEPT !.ALGORITHM = Given("bicubic")],
     [NoParams EXCEPT !.ALGORITHM = Given("cubic")],
     [NoParams EXCEPT !.ROUND_PROBE_COUNT = Given(5)]}

\* the names given to BED_MESH_PROFILE LOAD
ProfileNames == {"flat", "steep", "default", "lost"}

\* what a probing run measures: the probe's offsets and the height of the
\* k-th result, within 0 .. 0.2 or within 0.3 .. 1.2
ProbeRuns == {[offsets |-> <<Zero, Zero, Zero>>, base |-> 0, step |-> 1, period |-> 3],
              [offsets |-> <<Zero, Zero, <<1, 10>>>>, base |-> 3, step |-> 3, period |-> 4]}

\* the results the probe helper hands to probe_finalize: n of them, the k-th
\* taken at the k-th point of the path
probe_results(path, n, run) ==
    [k \in 0 .. n - 1 |->
        <<RSub(path[IMin(k, ListLen(path) - 1)][1], run.offsets[1]),
          RSub(path[IMin(k, ListLen(path) - 1)][2], run.offsets[2]),
          Rat(run.base + run.step * (k % run.period), 10)>>]

\* the four objects as one record, and the variables taking a record's values
Objects == [bedmesh |-> bedmesh, bmc |-> bmc, probe_mgr |-> probe_mgr, pmgr |-> pmgr]
Becomes(o) ==
    /\ bedmesh' = o.bedmesh
    /\ bmc' = o.bmc
    /\ probe_mgr' = o.probe_mgr
    /\ pmgr' = o.pmgr

\* the record of a command: what ran, what it raised, the mesh it handed to
\* set_mesh, whether a mesh was active before it
Done(op, raised, offered, set_mesh_called, n_points, n_results, rows) ==
    [op |-> op, raised |-> raised, offered |-> offered,
     set_mesh_called |-> set_mesh_called,
     had_mesh |-> (bedmesh.z_mesh # NoMesh),
     n_points |-> n_points, n_results |-> n_results, rows |-> rows,
     steps |-> hist.steps + 1]

InitFrom(configs) ==
    /\ zm = NoMesh
    /\ zhist = NoZHist
    /\ sp = NoSplitter
    /\ shist = NoSplitHist
    /\ \E config \in configs :
         /\ construct(config).raised = "none"
         /\ bedmesh = construct(config).o.bedmesh
         /\ bmc = construct(config).o.bmc
         /\ probe_mgr = construct(config).o.probe_mgr
         /\ pmgr = construct(config).o.pmgr
    /\ hist = NoHist
    /\ IdleMove

Init == InitFrom(Configs)

\* BED_MESH_CLEAR
CmdClear ==
    /\ hist.steps < MaxCommands
    /\ \E r \in {cmd_BED_MESH_CLEAR(Objects)} :
         /\ Becomes(r.o)
         /\ hist' = Done("clear", r.raised, NoMesh, TRUE, 0, 0, <<>>)
    /\ UNCHANGED <<zvars, svars, mvars>>

\* BED_MESH_PROFILE LOAD=<name>
CmdProfileLoad ==
    /\ hist.steps < MaxCommands
    /\ \E name \in ProfileNames :
         \E r \in {load_profile(Objects, name)} :
           /\ Becomes(r.o)
           /\ hist' = Done("load_profile", r.raised, r.offered, r.set_mesh_called,
                           0, 0, <<>>)
    /\ UNCHANGED <<zvars, svars, mvars>>

\* BED_MESH_CALIBRATE with its parameters
CmdCalibrate ==
    /\ hist.steps < MaxCommands
    /\ \E gcmd \in Gcmds :
         \E r \in {cmd_BED_MESH_CALIBRATE(Objects, gcmd)} :
           /\ Becomes(r.o)
           /\ hist' = Done("calibrate", r.raised, NoMesh, ~blank(gcmd.PROFILE),
                           0, 0, <<>>)
    /\ UNCHANGED <<zvars, svars, mvars>>

\* the probe helper is done and calls probe_finalize with one result more or
\* less than, or as many results as, the path has points
ProbeFinalize ==
    /\ hist.steps < MaxCommands
    /\ probe_mgr.probing
    /\ \E run \in ProbeRuns, d \in {-1, 0, 1} :
         \E r \in {probe_finalize(
                      Objects, run.offsets,
                      probe_results(get_std_path(probe_mgr),
                                    ListLen(get_std_path(probe_mgr)) + d, run))} :
           /\ Becomes([r.o EXCEPT !.probe_mgr.probing = FALSE])
           /\ hist' = Done("probe_finalize", r.raised, r.offered, r.set_mesh_called,
                           r.n_points, r.n_results,
                           [j \in 1 .. Len(r.rows) |-> Len(r.rows[j])])
    /\ UNCHANGED <<zvars, svars, mvars>>

Next == CmdClear \/ CmdProfileLoad \/ CmdCalibrate \/ ProbeFinalize

Spec == Init /\ [][Next]_vars

(***************************************************************************)
(* The printer's moves: BedMesh as the toolhead's move transform.  Profiles *)
(* are loaded, BED_MESH_OFFSET is given, gcode moves come in through       *)
(* move() and positions are read back through get_position().              *)
(***************************************************************************)
\* most commands, moves and position reads in one run
MaxMoveSteps == 3

\* nominal heights: on the bed, below, inside, at the end of and above the
\* fade bands of the configurations
MoveHeights == {Zero, One, <<3, 2>>, <<39, 20>>, R(2), R(6), R(12)}
\* X/Y positions: a mesh corner and a point inside a cell
MoveXY == {<<Zero, Zero>>, <<R(12), R(9)>>}
\* the names BED_MESH_PROFILE LOAD is given
MoveProfiles == {"flat", "steep", "tilted"}
\* the parameters of BED_MESH_OFFSET: X, Y, ZFADE
OffsetParams == {<<NoValue, NoValue, Given(<<1, 2>>)>>, <<Given(R(3)), NoValue, NoValue>>}

\* the record of a call
MDone(op, raised, after_move, sent, newpos, ret, z, factor) ==
    [op |-> op, raised |-> raised, after_move |-> after_move, sent |-> sent,
     newpos |-> newpos, ret |-> ret, z |-> z, factor |-> factor,
     split_used |-> FALSE, calls |-> 0, steps |-> mhist.steps + 1]

\* BED_MESH_PROFILE LOAD=<name>; set_mesh ends with
\* gcode_move.reset_last_position(), which reads get_position()
MLoadProfile ==
    /\ mhist.steps < MaxMoveSteps
    /\ \E name \in MoveProfiles :
         \E r \in {load_profile(Objects, name)} :
           \E g \in {IF r.raised = "none"
                      THEN get_position(r.o.bedmesh, last_position, toolhead)
                      ELSE [pos |-> last_position, raised |-> r.raised]} :
             /\ Becomes(r.o)
             /\ last_position' = g.pos
             /\ mhist' = MDone("load_profile", g.raised, FALSE, FALSE, NoPos, NoPos,
                               Zero, Zero)
    /\ UNCHANGED <<zvars, svars, hist, toolhead>>

\* BED_MESH_OFFSET
MOffset ==
    /\ mhist.steps < MaxMoveSteps
    /\ \E a \in OffsetParams :
         \E r \in {cmd_BED_MESH_OFFSET(bedmesh, last_position, toolhead,
                                        a[1], a[2], a[3])} :
           /\ bedmesh' = r.bedmesh
           /\ last_position' = r.last_position
           /\ mhist' = MDone("offset", r.raised, FALSE, FALSE, NoPos, NoPos, Zero, Zero)
    /\ UNCHANGED <<zvars, svars, bmc, probe_mgr, pmgr, hist, toolhead>>

\* a position in 200ths of a millimetre
In200ths(pos) == \A i \in 1 .. 3 : 200 % pos[i][2] = 0

\* a gcode move to newpos; where the splitter measures the move, one that
\* starts on a position in 200ths and has a rational length
MMove ==
    /\ mhist.steps < MaxMoveSteps
    /\ \E xy \in MoveXY, z \in MoveHeights :
         LET newpos == <<xy[1], xy[2], z, Zero>>
         IN  /\ \/ bedmesh.z_mesh = NoMesh
                 \/ /\ In200ths(last_position)
                    /\ move_length(last_position, newpos)[1] >= 0
             /\ \E r \in {move(bedmesh, last_position, toolhead, newpos)} :
                   /\ bedmesh' = r.bedmesh
                   /\ toolhead' = r.toolhead
                   /\ last_position' = r.last_position
                   /\ mhist' = [MDone("move", r.raised, FALSE, r.raised = "none",
                                       newpos, NoPos, Zero, Zero)
                                   EXCEPT !.split_used = r.split_used,
                                          !.calls = r.calls]
    /\ UNCHANGED <<zvars, svars, bmc, probe_mgr, pmgr, hist>>

\* gcode_move reads the position back
MGetPosition ==
    /\ mhist.steps < MaxMoveSteps
    /\ \E g \in {get_position(bedmesh, last_position, toolhead)} :
         /\ last_position' = g.pos
         /\ mhist' = MDone("get_position", g.raised, mhist.sent, FALSE, mhist.newpos,
                           g.pos, Zero, Zero)
    /\ UNCHANGED <<zvars, svars, pvars, toolhead>>

\* get_z_factor(z) on its own
MGetZFactor ==
    /\ mhist.steps < MaxMoveSteps
    /\ \E z \in MoveHeights :
         mhist' = MDone("get_z_factor", "none", FALSE, FALSE, NoPos, NoPos, z,
                        get_z_factor(bedmesh, z))
    /\ UNCHANGED <<zvars, svars, pvars, toolhead, last_position>>

MNext == MLoadProfile \/ MOffset \/ MMove \/ MGetPosition \/ MGetZFactor

\* the moves are also checked on a printer that fades over 1mm towards -0.4
\* and stores a profile within -0.4 .. 0.6
MoveConfigs ==
    Configs \cup
    {[BaseConfig EXCEPT
        !.fade_end = R(2), !.fade_target = Given(<<-2, 5>>),
        !.profiles = [n \in {"tilted"} |->
                         [points |-> shape_matrix(<<6, 0, 0, -5>>, 3, 3),
                          mesh_params |-> StoredParams]]]}

MInit == InitFrom(MoveConfigs)

SpecMove == MInit /\ [][MNext]_vars

(***************************************************************************)
(* Planning: the printer is constructed from a [bed_mesh] section          *)
(* (BedMesh.__init__ builds BedMeshCalibrate, which reads the mesh         *)
(* configuration, verifies the algorithm, builds the ProbeManager with its *)
(* faulty regions and generates the points), update_config re-plans for a  *)
(* BED_MESH_CALIBRATE command, and get_std_path reads the path.            *)
(***************************************************************************)
\* most update_config and get_std_path calls in one run
MaxPlanSteps == 2

\* algorithm names, mesh_pps and probe_count options on the bed (0,0)-(20,30)
PlanAlgorithms == {"lagrange", "bicubic", "direct", "cubic"}
PlanPps == {<<0, 0>>, <<2, 2>>, <<0, 1>>}
PlanCounts == {<<3, 3>>, <<3, 6>>, <<3, 7>>, <<7, 3>>, <<4, 4>>, <<4, 7>>, <<6, 6>>, <<7, 7>>}
AlgoConfigs ==
    {[BaseConfig EXCEPT !.algorithm = a, !.mesh_pps = pp, !.probe_count = c] :
        a \in PlanAlgorithms, pp \in PlanPps, c \in PlanCounts}

\* beds: rectangular ones whose spacing is a whole number, is floored on X,
\* is floored on Y with mesh_min off 0, is below 1, and with mesh_max below
\* mesh_min; round ones of radius 10 around (0,0) and around (5,-3) with 5
\* points, with an even count, and of radius 10.15 (floored to 10.1) with 3
Beds ==
    {[probe_count |-> <<3, 3>>, mesh_min |-> <<Zero, Zero>>, mesh_max |-> <<R(20), R(30)>>,
      mesh_radius |-> NoValue, mesh_origin |-> <<Zero, Zero>>, round_probe_count |-> 5],
     [probe_count |-> <<4, 3>>, mesh_min |-> <<Zero, Zero>>, mesh_max |-> <<<<41, 2>>, R(30)>>,
      mesh_radius |-> NoValue, mesh_origin |-> <<Zero, Zero>>, round_probe_count |-> 5],
     [probe_count |-> <<3, 4>>, mesh_min |-> <<<<1, 2>>, One>>, mesh_max |-> <<R(20), R(30)>>,
      mesh_radius |-> NoValue, mesh_origin |-> <<Zero, Zero>>, round_probe_count |-> 5],
     [probe_count |-> <<3, 3>>, mesh_min |-> <<Zero, Zero>>, mesh_max |-> <<One, R(30)>>,
      mesh_radius |-> NoValue, mesh_origin |-> <<Zero, Zero>>, round_probe_count |-> 5],
     [probe_count |-> <<3, 3>>, mesh_min |-> <<R(20), Zero>>, mesh_max |-> <<R(20), R(30)>>,
      mesh_radius |-> NoValue, mesh_origin |-> <<Zero, Zero>>, round_probe_count |-> 5],
     [probe_count |-> <<3, 3>>, mesh_min |-> <<Zero, Zero>>, mesh_max |-> <<R(20), R(30)>>,
      mesh_radius |-> Given(R(10)), mesh_origin |-> <<Zero, Zero>>, round_probe_count |-> 5],
     [probe_count |-> <<3, 3>>, mesh_min |-> <<Zero, Zero>>, mesh_max |-> <<R(20), R(30)>>,
      mesh_radius |-> Given(R(10)), mesh_origin |-> <<R(5), R(-3)>>, round_probe_count |-> 5],
     [probe_count |-> <<3, 3>>, mesh_min |-> <<Zero, Zero>>, mesh_max |-> <<R(20), R(30)>>,
      mesh_radius |-> Given(R(10)), mesh_origin |-> <<Zero, Zero>>, round_probe_count |-> 4],
     [probe_count |-> <<3, 3>>, mesh_min |-> <<Zero, Zero>>, mesh_max |-> <<R(20), R(30)>>,
      mesh_radius |-> Given(<<203, 20>>), mesh_origin |-> <<R(5), R(-3)>>,
      round_probe_count |-> 3]}

\* faulty regions as configured (faulty_region_N_min, faulty_region_N_max):
\* none; one around the centre of the rectangular beds, corners given in
\* reverse; one around the corner (0,0); one wider than the beds; the centre
\* and the corner one; two where a corner of one lies in the other; two that
\* cross without a corner of one in the other; two that share one edge; one
\* around the leftmost point of the round bed at (5,-3)
FaultyRegionSets ==
    {<<>>,
     ToList(<< <<<<R(12), R(17)>>, <<R(8), R(13)>>>> >>),
     ToList(<< <<<<R(-1), R(-1)>>, <<One, One>>>> >>),
     ToList(<< <<<<R(-25), R(-25)>>, <<R(25), R(35)>>>> >>),
     ToList(<< <<<<R(8), R(13)>>, <<R(12), R(17)>>>>, <<<<R(-1), R(-1)>>, <<One, One>>>> >>),
     ToList(<< <<<<R(8), R(13)>>, <<R(12), R(17)>>>>, <<<<R(10), R(15)>>, <<R(14), R(19)>>>> >>),
     ToList(<< <<<<R(6), R(14)>>, <<R(14), R(16)>>>>, <<<<R(9), R(11)>>, <<R(11), R(19)>>>> >>),
     ToList(<< <<<<R(2), R(2)>>, <<R(4), R(4)>>>>, <<<<R(4), R(2)>>, <<R(6), R(4)>>>> >>),
     ToList(<< <<<<R(-6), R(-4)>>, <<R(-4), R(-2)>>>> >>)}

\* zero_reference_position: none, within the beds, off the beds
ZeroRefs == {NoPoint, Given(<<R(10), R(15)>>), Given(<<R(25), R(-3)>>)}

GeometryConfigs ==
    {[BaseConfig EXCEPT !.probe_count = b.probe_count, !.mesh_min = b.mesh_min,
                        !.mesh_max = b.mesh_max, !.mesh_radius = b.mesh_radius,
                        !.mesh_origin = b.mesh_origin,
                        !.round_probe_count = b.round_probe_count,
                        !.faulty_regions = f, !.zero_reference_position = z] :
        b \in Beds, f \in FaultyRegionSets, z \in ZeroRefs}

\* the [bed_mesh] sections the printer is constructed from
PlanConfigs == AlgoConfigs \cup GeometryConfigs

\* the BED_MESH_CALIBRATE parameters update_config is given
PlanGcmds ==
    Gcmds \cup
    {[NoParams EXCEPT !.ROUND_PROBE_COUNT = Given(4)],
     [NoParams EXCEPT !.ROUND_PROBE_COUNT = Given(3), !.MESH_ORIGIN = Given(<<R(2), R(2)>>)],
     [NoParams EXCEPT !.MESH_RADIUS = Given(<<17, 2>>)],
     [NoParams EXCEPT !.PROBE_COUNT = Given(<<5, 4>>), !.ALGORITHM = Given("bicubic")],
     [NoParams EXCEPT !.PROBE_COUNT = Given(<<3, 5>>), !.ALGORITHM = Given("bicubic")]}

\* what _verify_algorithm was given and what it decided
Verified(ran, params) ==
    [ran |-> ran, params |-> params, out |-> verify_algorithm(params)]

\* what generate_points was given, when it was called
Generated(ran, b, mesh_config) ==
    [ran |-> ran, mesh_config |-> mesh_config, mesh_min |-> b.mesh_min,
     mesh_max |-> b.mesh_max, radius |-> b.radius, origin |-> b.origin]

\* the record of a planning call: the configuration or command given, what
\* was raised, the calls of _verify_algorithm and generate_points made on the
\* way, the path read
NoPlanHist ==
    [op |-> "init", raised |-> "none", config |-> BaseConfig, gcmd |-> NoParams,
     verify |-> Verified(FALSE, init_mesh_config(BaseConfig).mesh_config),
     generated |-> Generated(FALSE, init_mesh_config(BaseConfig),
                             init_mesh_config(BaseConfig).mesh_config),
     path |-> <<>>, steps |-> 0]

PInit ==
    /\ zm = NoMesh
    /\ zhist = NoZHist
    /\ sp = NoSplitter
    /\ shist = NoSplitHist
    /\ bedmesh = NoPrinter
    /\ bmc = NoPrinter
    /\ probe_mgr = NoPrinter
    /\ pmgr = NoPrinter
    /\ hist = NoPlanHist
    /\ IdleMove

\* the printer is constructed from a [bed_mesh] section; a configuration
\* error leaves no printer
PConstruct ==
    /\ hist.op = "init"
    /\ \E config \in PlanConfigs :
         \E r \in {construct(config)} :
           /\ IF r.raised = "none" THEN Becomes(r.o)
              ELSE UNCHANGED <<bedmesh, bmc, probe_mgr, pmgr>>
           /\ hist' = [hist EXCEPT
                         !.op = "construct", !.raised = r.raised, !.config = config,
                         !.verify = Verified(~init_mesh_config_raises(config),
                                             init_mesh_config(config).mesh_config),
                         !.generated =
                             Generated(/\ ~init_mesh_config_raises(config)
                                       /\ verify_algorithm(
                                             init_mesh_config(config).mesh_config).raised
                                            = "none"
                                       /\ ~faulty_regions_overlap(
                                             init_faulty_regions(config.faulty_regions)),
                                       r.o.bmc, r.o.bmc.mesh_config)]
    /\ UNCHANGED <<zvars, svars, mvars>>

\* update_config(gcmd)
PUpdateConfig ==
    /\ bedmesh # NoPrinter
    /\ hist.steps < MaxPlanSteps
    /\ \E gcmd \in PlanGcmds :
         \E r \in {update_config(Objects, gcmd)} :
           /\ Becomes(r.o)
           /\ hist' = [hist EXCEPT
                         !.op = "update_config", !.raised = r.raised, !.gcmd = gcmd,
                         !.verify =
                             Verified(need_cfg_update(reset_config(bmc), gcmd),
                                      apply_params(reset_config(bmc), gcmd).mesh_config),
                         !.generated =
                             Generated(r.raised \notin {"unknown_algorithm",
                                                        "lagrange_probe_count",
                                                        "bicubic_probe_count"},
                                       r.o.bmc, r.o.bmc.mesh_config),
                         !.path = <<>>,
                         !.steps = @ + 1]
    /\ UNCHANGED <<zvars, svars, mvars>>

\* get_std_path()
PGetStdPath ==
    /\ bedmesh # NoPrinter
    /\ hist.steps < MaxPlanSteps
    /\ hist' = [hist EXCEPT !.op = "get_std_path", !.path = get_std_path(probe_mgr),
                            !.steps = @ + 1]
    /\ UNCHANGED <<bedmesh, bmc, probe_mgr, pmgr, zvars, svars, mvars>>

PNext == PConstruct \/ PUpdateConfig \/ PGetStdPath

SpecPlan == PInit /\ [][PNext]_vars

(***************************************************************************)
(* Probing: the printer is constructed from a section with faulty regions, *)
(* the rapid path is read as the scan of BED_MESH_CALIBRATE METHOD=rapid_scan *)
(* reads it, and the probe helper hands probe_finalize one result for each *)
(* point of get_std_path.                                                  *)
(***************************************************************************)
\* most path reads and probing runs after construction
MaxScanSteps == 2

\* beds: 3x3 and 4x3 points on (0,0)-(20,30) and (0,0)-(30,30), a round one
\* of radius 10 with 5 points across
ScanBeds ==
    {[probe_count |-> <<3, 3>>, mesh_max |-> <<R(20), R(30)>>, mesh_radius |-> NoValue],
     [probe_count |-> <<4, 3>>, mesh_max |-> <<R(30), R(30)>>, mesh_radius |-> NoValue],
     [probe_count |-> <<3, 3>>, mesh_max |-> <<R(20), R(30)>>,
      mesh_radius |-> Given(R(10))]}

\* faulty regions: none; around the centre (10,15); at the right edge of the
\* 3x3 bed around (20,15), where the second row starts; the same reaching
\* over the edge; around the corner (0,0); the centre and the left end of
\* the last row; over two points of the second row; along the first row;
\* around the leftmost point of the round bed
ScanRegions ==
    {<<>>,
     ToList(<< <<<<R(8), R(13)>>, <<R(12), R(17)>>>> >>),
     ToList(<< <<<<R(12), R(13)>>, <<R(20), R(17)>>>> >>),
     ToList(<< <<<<R(12), R(13)>>, <<R(25), R(17)>>>> >>),
     ToList(<< <<<<R(-1), R(-1)>>, <<One, One>>>> >>),
     ToList(<< <<<<R(8), R(13)>>, <<R(12), R(17)>>>>, <<<<R(-1), R(29)>>, <<R(5), R(31)>>>> >>),
     ToList(<< <<<<R(8), R(13)>>, <<R(22), R(17)>>>> >>),
     ToList(<< <<<<R(-1), R(-1)>>, <<R(35), One>>>> >>),
     ToList(<< <<<<R(-11), R(-1)>>, <<R(-9), One>>>> >>)}

\* scan_overshoot: left out, below 3 (no room for an arc), 5
ScanOvershoots == {Zero, R(2), R(5)}

\* zero_reference_position: none, off the beds (probed last)
ScanZeroRefs == {NoPoint, Given(<<R(40), R(-3)>>)}

\* the sections the printer is constructed from; the mesh is not
\* interpolated
ScanConfigs ==
    {[BaseConfig EXCEPT !.probe_count = b.probe_count, !.mesh_max = b.mesh_max,
                        !.mesh_radius = b.mesh_radius, !.mesh_pps = <<0, 0>>,
                        !.faulty_regions = f, !.scan_overshoot = ov,
                        !.zero_reference_position = z] :
        b \in ScanBeds, f \in ScanRegions, ov \in ScanOvershoots, z \in ScanZeroRefs}

\* the probe's offsets in a probing run
ScanOffsets == {<<Zero, Zero, Zero>>, <<R(3), R(-2), <<1, 10>>>>}

\* the results of a run: one for each point of the path in its order, the
\* k-th with the height 2^k/1000, so that a sum of heights tells which were
\* added
scan_results(path, offsets) ==
    [k \in DOMAIN path |->
        <<RSub(path[k][1], offsets[1]), RSub(path[k][2], offsets[2]), Rat(2 ^ k, 1000)>>]

\* the record of a call: the path get_std_path returned, the entries
\* iter_rapid_path yielded and its sample points, the results handed to
\* probe_finalize, its z_offset, its corrected positions and its
\* probed_matrix before the validations
NoScanHist ==
    [op |-> "init", raised |-> "none", std_path |-> <<>>, rapid_path |-> <<>>,
     samples |-> <<>>, results |-> <<>>, z_offset |-> Zero, corrected |-> <<>>,
     matrix |-> <<>>, steps |-> 0]

QInit ==
    /\ zm = NoMesh
    /\ zhist = NoZHist
    /\ sp = NoSplitter
    /\ shist = NoSplitHist
    /\ bedmesh = NoPrinter
    /\ bmc = NoPrinter
    /\ probe_mgr = NoPrinter
    /\ pmgr = NoPrinter
    /\ hist = NoScanHist
    /\ IdleMove

\* the printer is constructed from a [bed_mesh] section; a configuration
\* error leaves no printer
QConstruct ==
    /\ hist.op = "init"
    /\ \E config \in ScanConfigs :
         \E r \in {construct(config)} :
           /\ IF r.raised = "none" THEN Becomes(r.o)
              ELSE UNCHANGED <<bedmesh, bmc, probe_mgr, pmgr>>
           /\ hist' = [hist EXCEPT !.op = "construct", !.raised = r.raised]
    /\ UNCHANGED <<zvars, svars, mvars>>

\* the scan reads list(iter_rapid_path()); the probe helper was given
\* get_std_path() by generate_points
QRapidPath ==
    /\ bedmesh # NoPrinter
    /\ hist.steps < MaxScanSteps
    /\ hist' = [hist EXCEPT !.op = "rapid_path", !.raised = "none",
                            !.std_path = get_std_path(probe_mgr),
                            !.rapid_path = iter_rapid_path(probe_mgr),
                            !.samples = rapid_samples(probe_mgr),
                            !.steps = @ + 1]
    /\ UNCHANGED <<bedmesh, bmc, probe_mgr, pmgr, zvars, svars, mvars>>

\* probe_finalize(offsets, positions) with one result for each point of
\* get_std_path
QProbeFinalize ==
    /\ bedmesh # NoPrinter
    /\ hist.steps < MaxScanSteps
    /\ \E offsets \in ScanOffsets :
         \E results \in {scan_results(get_std_path(probe_mgr), offsets)} :
           \E r \in {probe_finalize(Objects, offsets, results)} :
             \E pz \in {probed_positions(probe_mgr, offsets, results)} :
               \E corrected \in {corrected_pts(probe_mgr, offsets, pz[1])} :
                 /\ Becomes(r.o)
                 /\ hist' = [hist EXCEPT
                               !.op = "probe_finalize", !.raised = r.raised,
                               !.std_path = get_std_path(probe_mgr),
                               !.results = results,
                               !.z_offset = pz[2],
                               !.corrected = corrected,
                               !.matrix = probed_rows(probe_mgr, corrected, pz[2]),
                               !.steps = @ + 1]
    /\ UNCHANGED <<zvars, svars, mvars>>

QNext == QConstruct \/ QRapidPath \/ QProbeFinalize

SpecProbe == QInit /\ [][QNext]_vars

(***************************************************************************)
(* Properties of ZMesh (checked under SpecZMesh)                           *)
(***************************************************************************)
\* the mesh is as build_mesh left it
ZFresh == has_matrix(zm) /\ zhist.refs = <<>> /\ ~zhist.offsets_set

\* C8: after build_mesh(z_matrix), for direct, lagrange and bicubic alike, the
\* dense node (j*y_mult, i*x_mult) holds z_matrix[j][i] for every sample index
\* (i, j), and calc_z at that node's coordinate, with zero offsets, returns the
\* same value; the last row and the last column are among the indices.
C8_ExactAtSamples ==
    ZFresh =>
        LET p == zm.mesh_params
        IN  \A j \in 0 .. p.y_count - 1, i \in 0 .. p.x_count - 1 :
                /\ zm.mesh_matrix[j * y_mult(p)][i * x_mult(p)] = zhist.z_matrix[j][i]
                /\ calc_z(zm, get_x_coordinate(p, i * x_mult(p)),
                              get_y_coordinate(p, j * y_mult(p)))
                     = zhist.z_matrix[j][i]

\* a bicubic mesh with an interior span (4 samples on X), built from a grid
\* that is not flat, whose dense grid has nodes between the samples
C8_Witness ==
    /\ ZFresh
    /\ zm.mesh_params.algo = "bicubic"
    /\ zm.mesh_params.x_count = 4
    /\ zm.mesh_params.mesh_x_pps = MaxPps
    /\ zhist.z_matrix[0][0] # zhist.z_matrix[2][3]
    /\ zm.mesh_matrix[1][1] # Zero

\* exactly one set_zero_reference call was made on the mesh as built
ZOneRef == zm # NoMesh /\ Len(zhist.refs) = 1 /\ ~zhist.offsets_set

\* C9: after one set_zero_reference(x0, y0) on a freshly built mesh,
\* calc_z(x0, y0) is 0, for every algorithm and every reference point.
C9_ZeroAtReference ==
    ZOneRef => calc_z(zm, zhist.refs[1][1], zhist.refs[1][2]) = Zero

\* the same point was given to set_zero_reference twice, on the mesh as built
ZTwoRefs ==
    /\ zm # NoMesh /\ Len(zhist.refs) = 2 /\ ~zhist.offsets_set
    /\ zhist.refs[1] = zhist.refs[2]

\* the height the mesh as built had at the first reference point
ZOrigHeight == calc_z(zhist.built, zhist.refs[1][1], zhist.refs[1][2])

\* C10 as claimed: after two set_zero_reference calls with the same point,
\* every node of the sample grid and of the dense grid is lower than its
\* original value by twice the original height at that point.
C10_DoubleSubtract ==
    ZTwoRefs =>
        /\ zm.probed_matrix
             = matrix_minus(zhist.built.probed_matrix, RMul(R(2), ZOrigHeight))
        /\ zm.mesh_matrix
             = matrix_minus(zhist.built.mesh_matrix, RMul(R(2), ZOrigHeight))

\* C10 as amended: on a lagrange or bicubic mesh the second call with the same
\* point subtracts the height the point has by then, which is 0: after two
\* calls every node of both grids is lower than its original value by the
\* original height at that point, once.
C10_SecondCallSubtractsNothing ==
    (ZTwoRefs /\ zm.mesh_params.algo # "direct") =>
        /\ zm.probed_matrix = matrix_minus(zhist.built.probed_matrix, ZOrigHeight)
        /\ zm.mesh_matrix = matrix_minus(zhist.built.mesh_matrix, ZOrigHeight)

\* two calls at a point inside a cell of a lagrange mesh whose original height
\* there was not 0
C10_Witness ==
    /\ ZTwoRefs
    /\ zm.mesh_params.algo = "lagrange"
    /\ zhist.refs[1] = <<<<13, 2>>, R(21)>>
    /\ ZOrigHeight # Zero

\* the point the last lookup read, with the mesh offsets added
ZLookupAt ==
    <<RAdd(zhist.lookup.pt[1], zm.mesh_offsets[1]),
      RAdd(zhist.lookup.pt[2], zm.mesh_offsets[2])>>

\* a dense grid is built and the last lookup read a point off the mesh
ZLookupOutside ==
    /\ zhist.lookup.done /\ has_matrix(zm)
    /\ ~within(ZLookupAt, <<zm.mesh_params.min_x, zm.mesh_params.min_y>>,
               <<zm.mesh_params.max_x, zm.mesh_params.max_y>>, Zero)

\* C13: calc_z returns 0 when no dense grid is built; otherwise, for every
\* point and mesh offset, the cell index of each axis lies in [0, count-2] and
\* the local parameter in [0, 1], the four nodes read are nodes of the dense
\* grid, and the value is the value at the nearest point of the mesh bounds.
C13_ClampedLookup ==
    zhist.lookup.done =>
        IF ~has_matrix(zm) THEN zhist.lookup.z = Zero
        ELSE LET p == zm.mesh_params
                 ix == get_linear_index(p, ZLookupAt[1], 0)
                 iy == get_linear_index(p, ZLookupAt[2], 1)
                 nx == constrain(ZLookupAt[1], p.min_x, p.max_x)
                 ny == constrain(ZLookupAt[2], p.min_y, p.max_y)
             IN  /\ ix[2] \in 0 .. mesh_x_count(p) - 2
                 /\ iy[2] \in 0 .. mesh_y_count(p) - 2
                 /\ RLe(Zero, ix[1]) /\ RLe(ix[1], One)
                 /\ RLe(Zero, iy[1]) /\ RLe(iy[1], One)
                 /\ \A j \in {iy[2], iy[2] + 1}, i \in {ix[2], ix[2] + 1} :
                       j \in DOMAIN zm.mesh_matrix /\ i \in DOMAIN zm.mesh_matrix[j]
                 /\ zhist.lookup.z
                      = calc_z(zm, RSub(nx, zm.mesh_offsets[1]), RSub(ny, zm.mesh_offsets[2]))

\* a lookup off the mesh, past max_x because of the X mesh offset, on an
\* interpolated mesh that is not 0 there
C13_Witness ==
    /\ ZLookupOutside
    /\ zm.mesh_offsets[1] # Zero
    /\ zhist.lookup.pt = <<R(18), R(28)>>
    /\ zm.mesh_params.algo # "direct"
    /\ zhist.lookup.z # Zero

(***************************************************************************)
(* Properties of MoveSplitter (checked under SpecSplit)                    *)
(***************************************************************************)
\* the move given to build_move has been split to its end
SComplete == sp.built /\ sp.traverse_complete

\* the offset the claim gives the end point:
\* factor * (height_at(next.x, next.y) - fade_offset) + fade_offset
SEndOffset ==
    RAdd(RMul(sp.z_factor,
              RSub(calc_z(sp.z_mesh, sp.next_pos[1], sp.next_pos[2]), sp.fade_offset)),
         sp.fade_offset)

\* C1: after build_move, split() never raises and never returns None before
\* the traverse is complete; when it is complete the sub-moves returned are
\* finitely many (at most one per checkpoint before the end, and the end), and
\* the last one is next_pos on X, Y and E with Z = next_pos.z + factor *
\* (height_at(next.x, next.y) - fade_offset) + fade_offset.  The moves include
\* ones shorter than move_check_distance and ones with no X/Y component.
C1_FinalSubMove ==
    /\ shist.last_ret.kind # "error"
    /\ (sp.built /\ ~sp.traverse_complete /\ shist.last_call = "split")
          => shist.last_ret.kind = "move"
    /\ SComplete =>
          LET n == Len(shist.emitted)
          IN  /\ n >= 1
              /\ n = 1 \/ RLt(RMul(R(n - 1), sp.move_check_distance),
                               sp.total_move_length)
              /\ shist.emitted[n].final
              /\ shist.emitted[n].pos
                   = [sp.next_pos EXCEPT ![3] = RAdd(@, SEndOffset)]

\* a diagonal move over the warped map, faded by half around a non-zero fade
\* offset, that was split into more than one sub-move and whose end point
\* was raised off next_pos.z
C1_Witness ==
    /\ SComplete
    /\ Len(shist.emitted) >= 2
    /\ sp.axis_move[1] /\ sp.axis_move[2]
    /\ sp.z_factor = <<1, 2>>
    /\ sp.fade_offset # Zero
    /\ sp.z_mesh.mesh_params.algo = "lagrange"
    /\ shist.emitted[Len(shist.emitted)].pos[3] # sp.next_pos[3]

\* the offset the k-th sub-move is compared with
SPrevOffset(k) == IF k = 1 THEN shist.start_offset ELSE shist.emitted[k - 1].z_offset

\* C2: every sub-move returned for one move, other than the end point, has a
\* Z-offset at least split_delta_z away from the Z-offset of the sub-move
\* returned before it (the first: from the offset build_move computed at
\* prev_pos).
C2_MinimumOffsetStep ==
    \A k \in 1 .. Len(shist.emitted) :
        ~shist.emitted[k].final =>
            RLe(sp.split_delta_z,
                RAbs(RSub(shist.emitted[k].z_offset, SPrevOffset(k))))

\* a move with the coarser split_delta_z that returned a sub-move before its
\* end although it passed more checkpoints than it returned sub-moves, and
\* whose end point differs by less than split_delta_z
C2_Witness ==
    /\ SComplete
    /\ sp.split_delta_z = <<1, 10>>
    /\ Len(shist.emitted) >= 2
    /\ RLt(RMul(R(Len(shist.emitted) + 1), sp.move_check_distance),
           sp.total_move_length)
    /\ LET n == Len(shist.emitted)
       IN  RLt(RAbs(RSub(shist.emitted[n].z_offset, SPrevOffset(n))),
               sp.split_delta_z)

\* C3: once split() has returned the end point and set traverse_complete, a
\* further split() returns None and leaves the splitter (current_pos,
\* z_offset, distance_checked, traverse_complete and the rest) as it was;
\* only build_move changes it.
C3_NoneAfterComplete ==
    [][(SComplete /\ shist'.last_call = "split")
          => (sp' = sp /\ shist'.last_ret = Ret("none", NoPos)
              /\ shist'.emitted = shist.emitted)]_vars

\* two split() calls were made after the end point was returned
C3_Witness ==
    /\ SComplete
    /\ shist.extra = MaxExtraSplits
    /\ shist.last_ret.kind = "none"
    /\ Len(shist.emitted) >= 1

(***************************************************************************)
(* Properties of the printer (checked under Spec)                          *)
(***************************************************************************)
\* the last command had set_mesh reject the mesh it was handed
FadeRejected == hist.raised \in {"fade_range", "fade_target"}

\* C4 as claimed: when set_mesh rejects a mesh for the fade range, the mesh
\* that was active before the call is still active: z_mesh is unchanged.
C4_PreviousMapKept ==
    [][(hist'.raised \in {"fade_range", "fade_target"})
          => bedmesh'.z_mesh = bedmesh.z_mesh]_vars

\* C4 as amended: when set_mesh rejects a mesh for the fade range, no mesh is
\* active afterwards, whatever was active before: z_mesh is None and
\* fade_target is 0.0; the rest of BedMesh (the splitter's mesh, the status)
\* is as the call found it.
C4_NoMapAfterRejection ==
    [][(hist'.raised \in {"fade_range", "fade_target"})
          => /\ bedmesh'.z_mesh = NoMesh
             /\ bedmesh'.fade_target = Zero
             /\ bedmesh'.splitter = bedmesh.splitter
             /\ bedmesh'.status = bedmesh.status
             /\ bedmesh'.tool_offset = bedmesh.tool_offset]_vars

\* a stored profile was rejected for the fade range while another mesh was
\* active
C4_Witness ==
    /\ hist.op = "load_profile"
    /\ hist.raised = "fade_range"
    /\ hist.had_mesh
    /\ bedmesh.z_mesh = NoMesh
    /\ bedmesh.splitter.z_mesh # NoMesh

\* the mesh handed to set_mesh lies inside the fade range: its largest
\* |height| is below fade_end - fade_start, and a configured non-zero
\* fade_target lies within its heights
InsideFadeRange(mesh) ==
    With(get_z_range(mesh),
         LAMBDA zr :
           /\ RLt(RMax(RAbs(zr[1]), RAbs(zr[2])), bedmesh.fade_dist)
           /\ (bedmesh.base_fade_target.given /\ bedmesh.base_fade_target.val # Zero)
                => (RLe(zr[1], bedmesh.base_fade_target.val)
                    /\ RLe(bedmesh.base_fade_target.val, zr[2])))

\* set_mesh was handed a mesh while fade_end - fade_start > 0
FadingSetMesh ==
    hist.set_mesh_called /\ hist.offered # NoMesh /\ RLt(Zero, bedmesh.fade_dist)

\* C5: with fade_end - fade_start > 0, set_mesh(mesh) makes the mesh the
\* active one only if the mesh lies inside the fade range (largest |height|
\* below fade_end - fade_start; a configured non-zero fade_target within the
\* heights); otherwise it raises and the mesh is not the active one.
C5_InstallsOnlyInsideFadeRange ==
    (FadingSetMesh /\ ~InsideFadeRange(hist.offered)) =>
        (FadeRejected /\ bedmesh.z_mesh # hist.offered)

\* for every fade_end other than the value of FADE_DISABLE the mesh becomes
\* the active one exactly when it lies inside the fade range
C5_AwayFromFadeDisable ==
    (FadingSetMesh /\ bedmesh.fade_end # R(FADE_DISABLE)) =>
        IF InsideFadeRange(hist.offered)
        THEN hist.raised = "none" /\ bedmesh.z_mesh = hist.offered
        ELSE FadeRejected /\ bedmesh.z_mesh # hist.offered

\* the errors of update_config: from _verify_algorithm and generate_points
CalibrateErrors ==
    {"unknown_algorithm", "lagrange_probe_count", "bicubic_probe_count",
     "too_close", "no_substitute", "zero_ref_in_faulty_region"}

\* C6 as claimed: when BED_MESH_CALIBRATE fails with a configuration or
\* planning error, the mesh that was active before the command is still
\* active.
C6_PreviousMapKept ==
    [][(hist'.op = "calibrate" /\ hist'.raised \in CalibrateErrors)
          => bedmesh'.z_mesh = bedmesh.z_mesh]_vars

\* C6 as amended: when BED_MESH_CALIBRATE fails with a configuration or
\* planning error, no mesh is active afterwards, whatever was active before
\* (the command clears the mesh before it looks at its parameters), the
\* stored profiles are unchanged and no probing was started.
C6_NoMapAfterFailedCalibrate ==
    [][(hist'.op = "calibrate" /\ hist'.raised \in CalibrateErrors)
          => /\ bedmesh'.z_mesh = NoMesh
             /\ bedmesh'.splitter.z_mesh = NoMesh
             /\ bedmesh'.status.profile_name = ""
             /\ pmgr' = pmgr
             /\ probe_mgr'.probing = probe_mgr.probing]_vars

\* a BED_MESH_CALIBRATE that failed on a planning error while a mesh was
\* active
C6_Witness ==
    /\ hist.op = "calibrate"
    /\ hist.raised \in {"no_substitute", "zero_ref_in_faulty_region"}
    /\ hist.had_mesh
    /\ bedmesh.z_mesh = NoMesh

\* the matrix probe_finalize assembled has y_count rows of x_count values
ShapeMatches ==
    /\ Len(hist.rows) = bmc.mesh_config.y_count
    /\ \A j \in 1 .. Len(hist.rows) : hist.rows[j] = bmc.mesh_config.x_count

\* C7: when probe_finalize has, after the reference sample is removed and
\* each substitute group is made one entry, a number of results other than
\* the number of base points, or assembles a matrix that is not y_count rows
\* of x_count values, it raises, set_mesh is not called, and BedMesh (the
\* active mesh with it) and the stored profiles are as before.
C7_MismatchRaises ==
    [][(hist'.op = "probe_finalize"
        /\ (hist'.n_results # hist'.n_points \/ ~ShapeMatches'))
          => /\ hist'.raised \in {"list_size", "y_length", "x_length", "even_row"}
             /\ ~hist'.set_mesh_called
             /\ bedmesh' = bedmesh
             /\ pmgr' = pmgr]_vars

\* probe_finalize was handed one result too many for a path that holds
\* substitutes
C7_Witness ==
    /\ hist.op = "probe_finalize"
    /\ hist.raised = "list_size"
    /\ hist.n_results = hist.n_points + 1
    /\ DOMAIN probe_mgr.substitutes # {}

(***************************************************************************)
(* Properties of the printer's moves (checked under SpecMove)              *)
(***************************************************************************)
\* fade_start < fade_end
Fading == RLt(bedmesh.fade_start, bedmesh.fade_end)

\* the factor the claim gives the height zf = z + tool_offset
ClaimedFactor(zf) ==
    IF RLe(zf, bedmesh.fade_start) THEN One
    ELSE IF RLe(bedmesh.fade_end, zf) THEN Zero
    ELSE RDiv(RSub(bedmesh.fade_end, zf), RSub(bedmesh.fade_end, bedmesh.fade_start))

\* C11: with fade_start < fade_end, get_z_factor(z) is, as a function of
\* z + tool_offset, 1 at or below fade_start, 0 at or above fade_end and
\* (fade_end - z) / (fade_end - fade_start) in between; it lies in [0, 1] and
\* does not increase with z.
C11_FadeFactor ==
    Fading =>
        /\ mhist.op = "get_z_factor" =>
              /\ mhist.factor = ClaimedFactor(RAdd(mhist.z, bedmesh.tool_offset))
              /\ RLe(Zero, mhist.factor) /\ RLe(mhist.factor, One)
        /\ \A z1 \in MoveHeights, z2 \in MoveHeights :
              RLe(z1, z2) => RLe(get_z_factor(bedmesh, z2), get_z_factor(bedmesh, z1))

\* get_z_factor returned a factor strictly between 0 and 1 while a tool
\* offset was set
C11_Witness ==
    /\ Fading
    /\ mhist.op = "get_z_factor"
    /\ bedmesh.tool_offset # Zero
    /\ RLt(Zero, mhist.factor) /\ RLt(mhist.factor, One)

\* C12: with a mesh active and fading enabled, get_position() called while
\* the toolhead is where the last move(newpos) sent it returns newpos on X,
\* Y and Z, for newpos.z below, inside and above the fade band and for every
\* fade_target set_mesh accepted.
C12_StripInvertsApply ==
    (/\ mhist.op = "get_position" /\ mhist.after_move
     /\ bedmesh.z_mesh # NoMesh /\ RLt(Zero, bedmesh.fade_dist))
        => /\ mhist.raised = "none"
           /\ \A i \in 1 .. 3 : mhist.ret[i] = mhist.newpos[i]

\* for a fade_target of 0 the position read back is the position moved to
C12_ZeroFadeTarget ==
    (/\ mhist.op = "get_position" /\ mhist.after_move
     /\ bedmesh.z_mesh # NoMesh /\ RLt(Zero, bedmesh.fade_dist)
     /\ bedmesh.fade_target = Zero)
        => /\ mhist.raised = "none"
           /\ \A i \in 1 .. 3 : mhist.ret[i] = mhist.newpos[i]

(***************************************************************************)
(* Properties of planning (checked under SpecPlan)                         *)
(***************************************************************************)
\* C14: _verify_algorithm rejects a name other than lagrange and bicubic;
\* with both points-per-segment values 0 it makes the algorithm direct,
\* whatever the name and the counts; otherwise it rejects lagrange with a
\* count above 6 and bicubic with the smaller count below 4 and the larger
\* above 6, replaces bicubic with the smaller count below 4 and the larger at
\* most 6 by lagrange, and keeps everything else as it is.
C14_VerifyAlgorithm ==
    hist.verify.ran =>
        LET p == hist.verify.params
            out == hist.verify.out
            small == p.x_count < 4 \/ p.y_count < 4
            large == p.x_count > 6 \/ p.y_count > 6
        IN  IF p.algo # "lagrange" /\ p.algo # "bicubic" THEN out.raised # "none"
            ELSE IF p.mesh_x_pps = 0 /\ p.mesh_y_pps = 0
            THEN out.raised = "none" /\ out.mesh_config = [p EXCEPT !.algo = "direct"]
            ELSE IF p.algo = "lagrange" /\ large THEN out.raised # "none"
            ELSE IF p.algo = "bicubic" /\ small /\ large THEN out.raised # "none"
            ELSE IF p.algo = "bicubic" /\ small
            THEN out.raised = "none" /\ out.mesh_config = [p EXCEPT !.algo = "lagrange"]
            ELSE out.raised = "none" /\ out.mesh_config = p

\* update_config was given ALGORITHM=bicubic with a count of 3 on one axis
\* and 5 on the other, and planned with lagrange
C14_Witness ==
    /\ hist.op = "update_config"
    /\ hist.verify.ran
    /\ hist.verify.params.algo = "bicubic"
    /\ hist.verify.params.x_count = 3 /\ hist.verify.params.y_count = 5
    /\ hist.raised = "none"
    /\ bmc.mesh_config.algo = "lagrange"

\* generate_points ran to its end in the last construction or update_config
Planned == bedmesh # NoPrinter /\ hist.generated.ran /\ hist.raised = "none"

\* C15: on a rectangular bed generate_points produces x_count * y_count
\* points; row r holds x_count points of one Y, with X strictly ascending when
\* r is even and strictly descending when r is odd; Y does not decrease from
\* row to row, and row r + 1 starts at the X where row r ended.
C15_SnakeOrder ==
    (Planned /\ ~hist.generated.radius.given) =>
        LET pts == probe_mgr.base_points
            xc == hist.generated.mesh_config.x_count
            yc == hist.generated.mesh_config.y_count
        IN  /\ DOMAIN pts = 0 .. xc * yc - 1
            /\ \A r \in 0 .. yc - 1 : \A c \in 0 .. xc - 2 :
                  /\ pts[r * xc + c][2] = pts[r * xc + c + 1][2]
                  /\ IF r % 2 = 0 THEN RLt(pts[r * xc + c][1], pts[r * xc + c + 1][1])
                     ELSE RLt(pts[r * xc + c + 1][1], pts[r * xc + c][1])
            /\ \A r \in 0 .. yc - 2 :
                  /\ RLe(pts[r * xc][2], pts[(r + 1) * xc][2])
                  /\ pts[r * xc + xc - 1][1] = pts[(r + 1) * xc][1]

\* a 4 x 3 lattice whose X spacing was floored, so that the rows turn short
\* of mesh_max
C15_Witness ==
    /\ Planned /\ ~hist.generated.radius.given
    /\ hist.generated.mesh_config.x_count = 4 /\ hist.generated.mesh_config.y_count = 3
    /\ RLt(probe_mgr.base_points[3][1], hist.generated.mesh_max[1])
    /\ probe_mgr.base_points[4][1] = probe_mgr.base_points[3][1]

\* C16: every point generate_points produces lies inside the bed: within
\* [mesh_min, mesh_max] on both axes on a rectangular bed, at most radius away
\* from the origin on a round bed, wherever the origin is.
C16_InsideBed ==
    Planned =>
        \A k \in DOMAIN probe_mgr.base_points :
            LET pt == probe_mgr.base_points[k]
                g == hist.generated
            IN  IF ~g.radius.given
                THEN /\ RLe(g.mesh_min[1], pt[1]) /\ RLe(pt[1], g.mesh_max[1])
                     /\ RLe(g.mesh_min[2], pt[2]) /\ RLe(pt[2], g.mesh_max[2])
                ELSE RLe(RAdd(RMul(RSub(pt[1], g.origin[1]), RSub(pt[1], g.origin[1])),
                              RMul(RSub(pt[2], g.origin[2]), RSub(pt[2], g.origin[2]))),
                         RMul(g.radius.val, g.radius.val))

\* a round bed around an origin other than (0,0) whose lattice lost its
\* corners
C16_Witness ==
    /\ Planned /\ hist.generated.radius.given
    /\ hist.generated.origin # <<Zero, Zero>>
    /\ hist.generated.mesh_config.x_count = 5
    /\ ListLen(probe_mgr.base_points) < 25
    /\ ListLen(probe_mgr.base_points) > 0

\* C17: generate_points never runs for a round bed with an even x_count: an
\* even count is rejected when it comes from the configuration and when it is
\* given per command as ROUND_PROBE_COUNT.
C17_RoundCountOdd ==
    (hist.generated.ran /\ hist.generated.radius.given) =>
        hist.generated.mesh_config.x_count % 2 = 1

\* an even round_probe_count in the configuration is a configuration error
C17_ConfiguredCountOdd ==
    (/\ hist.op = "construct" /\ hist.config.mesh_radius.given
     /\ hist.config.round_probe_count % 2 = 0)
        => hist.raised = "config" /\ bedmesh = NoPrinter

\* two regions <<min_c, max_c>> have a point in common
SharePoint(a, b) ==
    /\ RLe(a[1][1], b[2][1]) /\ RLe(b[1][1], a[2][1])
    /\ RLe(a[1][2], b[2][2]) /\ RLe(b[1][2], a[2][2])

\* C18: two configured faulty regions that share at least one point are a
\* configuration error, so the regions of a constructed printer are pairwise
\* disjoint.
C18_AcceptedRegionsDisjoint ==
    bedmesh # NoPrinter =>
        \A i, j \in DOMAIN probe_mgr.faulty_regions :
            i # j => ~SharePoint(probe_mgr.faulty_regions[i], probe_mgr.faulty_regions[j])

\* two regions of which one has a corner within the other are a configuration
\* error
C18_CornerInsideRejected ==
    (/\ hist.op = "construct"
     /\ \E i, j \in DOMAIN hist.config.faulty_regions :
           /\ i # j
           /\ \E c \in corners(init_faulty_regions(hist.config.faulty_regions)[i]) :
                 within(c, init_faulty_regions(hist.config.faulty_regions)[j][1],
                        init_faulty_regions(hist.config.faulty_regions)[j][2], Zero))
        => hist.raised = "config" /\ bedmesh = NoPrinter

\* pt lies in the region <<min_c, max_c>>, its boundary included
InRegion(pt, region) == within(pt, region[1], region[2], Zero)

\* pt lies on the boundary of the region
OnBoundary(pt, region) ==
    /\ InRegion(pt, region)
    /\ pt[1] \in {region[1][1], region[2][1]} \/ pt[2] \in {region[1][2], region[2][2]}

\* pt lies inside the bed generate_points was given
InsideBed(pt) ==
    LET g == hist.generated
    IN  IF ~g.radius.given THEN within(pt, g.mesh_min, g.mesh_max, Zero)
        ELSE RLe(RAdd(RMul(RSub(pt[1], g.origin[1]), RSub(pt[1], g.origin[1])),
                      RMul(RSub(pt[2], g.origin[2]), RSub(pt[2], g.origin[2]))),
                 RMul(g.radius.val, g.radius.val))

\* the substitutes of every index are 1 to 4 points on the boundary of a
\* region that holds the lattice point, inside the bed
SubstitutesInsideBed ==
    \A i \in DOMAIN probe_mgr.substitutes :
        /\ ListLen(probe_mgr.substitutes[i]) \in 1 .. 4
        /\ \A k \in DOMAIN probe_mgr.substitutes[i] :
              /\ \E r \in DOMAIN probe_mgr.faulty_regions :
                    /\ InRegion(probe_mgr.base_points[i], probe_mgr.faulty_regions[r])
                    /\ OnBoundary(probe_mgr.substitutes[i][k], probe_mgr.faulty_regions[r])
              /\ InsideBed(probe_mgr.substitutes[i][k])

\* the indices with substitutes are those of the lattice points in a region
SubstitutedIndices ==
    DOMAIN probe_mgr.substitutes =
        {i \in DOMAIN probe_mgr.base_points :
            \E r \in DOMAIN probe_mgr.faulty_regions :
                InRegion(probe_mgr.base_points[i], probe_mgr.faulty_regions[r])}

\* C19: after generate_points completes, exactly the lattice indices whose
\* point lies in a faulty region have substitutes; each has 1 to 4 of them,
\* every one on the boundary of the region and inside the bed (within
\* mesh_min and mesh_max, or within radius of the origin on a round bed); the
\* lattice point stays in base_points.
C19_Substitutes ==
    Planned => SubstitutedIndices /\ SubstitutesInsideBed

\* the same on rectangular beds and on round beds around (0,0)
C19_OriginZero ==
    (Planned /\ (hist.generated.radius.given => hist.generated.origin = <<Zero, Zero>>))
        => SubstitutedIndices /\ SubstitutesInsideBed

\* the number of path entries lattice index k accounts for
PathEntries(k) ==
    IF k \in DOMAIN probe_mgr.substitutes THEN ListLen(probe_mgr.substitutes[k]) ELSE 1

\* the number of path entries before those of lattice index i
RECURSIVE PathStart(_)
PathStart(i) == IF i = 0 THEN 0 ELSE PathStart(i - 1) + PathEntries(i - 1)

\* the sum of the lengths of the substitute lists of the indices in S
RECURSIVE SubstituteTotal(_)
SubstituteTotal(S) ==
    IF S = {} THEN 0
    ELSE LET i == CHOOSE k \in S : TRUE
         IN  ListLen(probe_mgr.substitutes[i]) + SubstituteTotal(S \ {i})

\* C20: get_std_path returns the lattice points in lattice order, each
\* substituted point replaced in place by its substitutes in their stored
\* order, followed by the zero reference position as last element if and only
\* if the reference mode is PROBE; its length is the number of lattice points
\* minus the number of substituted indices plus the lengths of the substitute
\* lists, plus 1 in PROBE mode.
C20_StdPath ==
    hist.op = "get_std_path" =>
        LET pts == probe_mgr.base_points
            subs == probe_mgr.substitutes
            probe == IF probe_mgr.zref_mode = "PROBE" THEN 1 ELSE 0
            n == ListLen(pts) - Cardinality(DOMAIN subs) + SubstituteTotal(DOMAIN subs)
        IN  /\ DOMAIN hist.path = 0 .. n + probe - 1
            /\ \A i \in DOMAIN pts :
                  IF i \in DOMAIN subs
                  THEN \A m \in DOMAIN subs[i] : hist.path[PathStart(i) + m] = subs[i][m]
                  ELSE hist.path[PathStart(i)] = pts[i]
            /\ probe = 1 => hist.path[n] = probe_mgr.zero_ref_pos.val

\* a path read with the reference in PROBE mode and with a substituted index
\* that has several substitutes, followed by further lattice points
C20_Witness ==
    /\ hist.op = "get_std_path"
    /\ probe_mgr.zref_mode = "PROBE"
    /\ \E i \in DOMAIN probe_mgr.substitutes :
          /\ ListLen(probe_mgr.substitutes[i]) > 1
          /\ i + 1 \in DOMAIN probe_mgr.base_points

(***************************************************************************)
(* Properties of the active map's bookkeeping (checked under Spec)         *)
(***************************************************************************)
\* C28: in every state reached through BED_MESH_CLEAR, profile loads,
\* calibrations and probe_finalize (failed ones included): without an active
\* map fade_target is 0 and move() sends every position to the toolhead with
\* its Z unchanged; with an active map the MoveSplitter holds that map and
\* its fade_offset is fade_target.
C28_FadeTargetAndSplitter ==
    /\ bedmesh.z_mesh = NoMesh =>
          /\ bedmesh.fade_target = Zero
          /\ \A xy \in MoveXY, z \in MoveHeights :
                move(bedmesh, NoPos, NoPos, <<xy[1], xy[2], z, Zero>>).toolhead
                    = <<xy[1], xy[2], z, Zero>>
    /\ bedmesh.z_mesh # NoMesh =>
          /\ bedmesh.splitter.z_mesh = bedmesh.z_mesh
          /\ bedmesh.splitter.fade_offset = bedmesh.fade_target

\* set_mesh rejected a map while a map with a non-zero fade_target was active
\* in the splitter
C28_Witness ==
    /\ FadeRejected
    /\ hist.had_mesh
    /\ bedmesh.z_mesh = NoMesh
    /\ bedmesh.splitter.z_mesh # NoMesh
    /\ bedmesh.splitter.fade_offset # Zero

\* the status describes the active map: its name and rounded matrices with
\* a map, the empty name and [[]] without one
StatusCurrent ==
    IF bedmesh.z_mesh = NoMesh
    THEN /\ bedmesh.status.profile_name = ""
         /\ bedmesh.status.probed_matrix = EmptyMatrix
         /\ bedmesh.status.mesh_matrix = EmptyMatrix
    ELSE /\ bedmesh.status.profile_name = bedmesh.z_mesh.profile_name
         /\ bedmesh.status.probed_matrix = get_probed_matrix(bedmesh.z_mesh)
         /\ bedmesh.status.mesh_matrix = get_mesh_matrix(bedmesh.z_mesh)

\* C29: after any sequence of set_mesh calls (accepted or rejected),
\* BED_MESH_CLEAR and profile loads, the status get_status returns has the
\* profile name and the matrices of the active map, and is empty exactly
\* when no map is active.
C29_StatusDescribesActiveMap == StatusCurrent

\* the status is current after every command that called set_mesh and whose
\* set_mesh call did not reject the map
C29_CurrentUnlessRejected == hist.set_mesh_called /\ ~FadeRejected => StatusCurrent

(***************************************************************************)
(* Properties of the maps calibrations build (checked under Spec)          *)
(***************************************************************************)
\* probe_finalize has built a map and handed it to set_mesh
BuiltByCalibration == hist.op = "probe_finalize" /\ hist.offered # NoMesh

\* the algorithm of a map fits its counts and points per segment
AlgorithmFits(p) ==
    /\ p.algo = "bicubic" => IMin(p.x_count, p.y_count) >= 4
    /\ IMax(p.mesh_x_pps, p.mesh_y_pps) = 0 => p.algo = "direct"

\* C25: every map a calibration builds, after any sequence of
\* BED_MESH_CALIBRATE commands (also ones without a parameter that changes
\* the configuration, given after start-up changed the configured
\* algorithm), uses an algorithm that fits its counts and points per
\* segment: bicubic only with at least 4 samples per axis, direct whenever
\* both points-per-segment values are 0.
C25_CompatibleAlgorithm == BuiltByCalibration => AlgorithmFits(hist.offered.mesh_params)

\* the algorithm start-up settles on is the configured one
ConfiguredAlgorithmKept ==
    verify_algorithm([x_count |-> bmc.orig_config.x_count,
                      y_count |-> bmc.orig_config.y_count,
                      mesh_x_pps |-> bmc.orig_config.mesh_x_pps,
                      mesh_y_pps |-> bmc.orig_config.mesh_y_pps,
                      algo |-> bmc.orig_config.algo,
                      tension |-> bmc.orig_config.tension]).mesh_config.algo
        = bmc.orig_config.algo

\* where start-up keeps the configured algorithm, every map a calibration
\* builds uses an algorithm that fits
C25_CompatibleWithoutDowngrade ==
    BuiltByCalibration /\ ConfiguredAlgorithmKept => AlgorithmFits(hist.offered.mesh_params)

(***************************************************************************)
(* Properties of the zero reference's class (checked under SpecPlan)       *)
(***************************************************************************)
\* generate_points was called by the last construction or update_config and
\* got past its check of the spacing
Classified ==
    /\ hist.op \in {"construct", "update_config"}
    /\ hist.generated.ran
    /\ hist.raised # "too_close"

\* the class the claim gives the reference on the call's arguments
ClaimedClass ==
    LET ref == hist.config.zero_reference_position
        method == IF hist.op = "construct" THEN "automatic" ELSE hist.gcmd.METHOD
    IN  IF ~ref.given \/ method = "manual" THEN "DISABLED"
        ELSE IF /\ RLe(hist.generated.mesh_min[1], ref.val[1])
                /\ RLe(ref.val[1], hist.generated.mesh_max[1])
                /\ RLe(hist.generated.mesh_min[2], ref.val[2])
                /\ RLe(ref.val[2], hist.generated.mesh_max[2])
        THEN "IN_MESH"
        ELSE "PROBE"

\* the reference lies inside one of the configured faulty regions
RefInFaultyRegion ==
    LET ref == hist.config.zero_reference_position.val
        regions == init_faulty_regions(hist.config.faulty_regions)
    IN  \E k \in DOMAIN regions : InRegion(ref, regions[k])

C26_NeverDividesByZero == mhist.raised # "zero_division"

\* with a fade target that is not negative the divisor is never zero
C26_NoZeroDivisionAtTargetFromZero ==
    RLe(Zero, bedmesh.fade_target) => mhist.raised # "zero_division"


(***************************************************************************)
(* The loop of move() over split() (checked under SpecMove)                *)
(***************************************************************************)
\* the smallest integer that is not below the rational a
RCeil(a) == -((-a[1]) \div a[2])

\* the last call was a move that went through the splitter
SplitMove == mhist.op = "move" /\ mhist.split_used

\* ceil(total_move_length / move_check_distance) of the last move
CheckSlots ==
    RCeil(RDiv(bedmesh.splitter.total_move_length, bedmesh.splitter.move_check_distance))

\* C27: for any move that BedMesh.move hands to the splitter, the loop over
\* split() ends after at most ceil(total_move_length / move_check_distance)
\* calls, and neither the 'Slice distance' error nor the 'Error splitting
\* move' error is raised.
C27_SegmentationBound ==
    SplitMove => /\ mhist.raised \notin {"slice", "split"}
                 /\ mhist.calls <= CheckSlots

\* C27 as amended: the loop ends after at most
\* max(1, ceil(total_move_length / move_check_distance)) calls, since the
\* end of the move always takes one call, and neither error is raised.
C27_SegmentationBoundFromOne ==
    SplitMove => /\ mhist.raised \notin {"slice", "split"}
                 /\ mhist.calls >= 1
                 /\ mhist.calls <= (IF CheckSlots > 1 THEN CheckSlots ELSE 1)

\* a move of 15mm checked every 5mm that took all three calls
C27_Witness ==
    /\ SplitMove
    /\ mhist.raised = "none"
    /\ bedmesh.splitter.total_move_length = R(15)
    /\ CheckSlots = 3
    /\ mhist.calls = 3

\* a move of no length (the toolhead stays where it is) takes one call
C27_ZeroLengthMove ==
    /\ SplitMove
    /\ bedmesh.splitter.total_move_length = Zero
    /\ mhist.calls = 1


(***************************************************************************)
(* Properties of the rapid path (checked under SpecProbe)                  *)
(***************************************************************************)
\* a slot of a rectangular bed that starts a row and has four substitutes
FourAtRowStart ==
    /\ ~probe_mgr.is_round
    /\ \E idx \in DOMAIN probe_mgr.substitutes :
         /\ idx > 0
         /\ ListLen(probe_mgr.substitutes[idx]) = 4
         /\ ~isclose_e(probe_mgr.base_points[idx][2], probe_mgr.base_points[idx - 1][2], 6)

\* C24: the points iter_rapid_path flags as sample points, in the order it
\* yields them, are the sequence get_std_path returns (same points, same
\* count, same order), for any number of substitutes per slot, at the start
\* of a row or inside one, on round and rectangular beds, with and without
\* a probed reference point.
C24_SamplesAreStdPath ==
    hist.op = "rapid_path" => hist.samples = hist.std_path

\* the two agree unless a slot at the start of a row has four substitutes
C24_SamplesUnlessFourAtRowStart ==
    hist.op = "rapid_path" /\ ~FourAtRowStart => hist.samples = hist.std_path


(***************************************************************************)
(* Properties of probe_finalize's corrected positions and sample grid      *)
(* (checked under SpecProbe)                                               *)
(***************************************************************************)
\* the number of points get_std_path has for lattice slot i
slot_len(pm, i) ==
    IF i \in DOMAIN pm.substitutes THEN ListLen(pm.substitutes[i]) ELSE 1

\* the index in get_std_path of the first point of lattice slot i
RECURSIVE slot_start(_, _)
slot_start(pm, i) ==
    IF i = 0 THEN 0 ELSE slot_start(pm, i - 1) + slot_len(pm, i - 1)

\* the arithmetic mean of the heights measured at the points of slot i
slot_mean(pm, results, i) ==
    RDiv(RSum([k \in 0 .. slot_len(pm, i) - 1 |-> results[slot_start(pm, i) + k][3]],
              0, slot_len(pm, i) - 1),
         R(slot_len(pm, i)))

\* C21: given one result for each point of get_std_path in its order,
\* probe_finalize has one corrected entry for each lattice slot; a
\* substituted slot has the arithmetic mean of the heights measured at its
\* substitutes, any other slot the height measured at its own point.
C21_CorrectedEntries ==
    hist.op = "probe_finalize" =>
        /\ Len(hist.corrected) = ListLen(probe_mgr.base_points)
        /\ \A i \in DOMAIN probe_mgr.base_points :
             hist.corrected[i + 1][3] =
                 IF i \in DOMAIN probe_mgr.substitutes
                 THEN slot_mean(probe_mgr, hist.results, i)
                 ELSE hist.results[slot_start(probe_mgr, i)][3]

\* a run over a lattice with two substituted slots, one with four
\* substitutes, that ends with the probed reference
C21_Witness ==
    /\ hist.op = "probe_finalize"
    /\ hist.raised = "none"
    /\ probe_mgr.zref_mode = "PROBE"
    /\ Cardinality(DOMAIN probe_mgr.substitutes) = 2
    /\ \E i \in DOMAIN probe_mgr.substitutes : ListLen(probe_mgr.substitutes[i]) = 4
    /\ ListLen(hist.results) = ListLen(hist.std_path)
    /\ ListLen(hist.std_path) > ListLen(probe_mgr.base_points) + 1


\* the height probe_finalize stores for lattice slot i: the corrected height
\* less the z_offset
slot_height(i) == RSub(hist.corrected[i + 1][3], hist.z_offset)

\* a probing run on a rectangular bed that went through
RectangularRun ==
    /\ hist.op = "probe_finalize"
    /\ hist.raised = "none"
    /\ ~bmc.radius.given

\* C22: on a rectangular lattice with cols = x_count, the height measured
\* for lattice index i is stored in the sample grid at row i // cols and
\* column i % cols, for every i.
C22_RowMajorSlots ==
    RectangularRun =>
        \A i \in DOMAIN probe_mgr.base_points :
            hist.matrix[i \div bmc.mesh_config.x_count + 1]
                       [(i % bmc.mesh_config.x_count) + 1] = slot_height(i)

\* C22 as amended: the height of lattice index i is stored at row i // cols,
\* and at column i % cols on the rows probed in the positive direction (the
\* even ones), cols - 1 - i % cols on the rows probed in the negative
\* direction (the odd ones).
C22_SnakeSlots ==
    RectangularRun =>
        \A i \in DOMAIN probe_mgr.base_points :
            hist.matrix[i \div bmc.mesh_config.x_count + 1]
                       [IF (i \div bmc.mesh_config.x_count) % 2 = 0
                        THEN (i % bmc.mesh_config.x_count) + 1
                        ELSE bmc.mesh_config.x_count - (i % bmc.mesh_config.x_count)]
                = slot_height(i)

\* a run over the lattice of 4 by 3 points with a substituted slot
C22_Witness ==
    /\ RectangularRun
    /\ bmc.mesh_config.x_count = 4
    /\ Len(hist.matrix) = 3
    /\ DOMAIN probe_mgr.substitutes # {}

\* the lattice points of the row of slot i that lie left of it, and the rows
\* below it
left_of(pm, i) ==
    {k \in DOMAIN pm.base_points :
        /\ pm.base_points[k][2] = pm.base_points[i][2]
        /\ RLt(pm.base_points[k][1], pm.base_points[i][1])}
rows_below(pm, i) ==
    {pm.base_points[k][2] : k \in {n \in DOMAIN pm.base_points :
                                      RLt(pm.base_points[n][2], pm.base_points[i][2])}}

====
